---- MODULE Spec2Model ----
(***************************************************************************)
(* ts-code-layout: main and the ordering engine of the final variant       *)
(* (src/unnamed/part_002, lines 499-1073), and of src/main.ts.             *)
(*                                                                         *)
(* A text is a sequence of characters.  Every run of non-whitespace        *)
(* characters the model does not look into is one atom (a string such as   *)
(* "//banner"); the newline character is the atom NL.  Offsets, widths     *)
(* and gaps are counted in atoms.                                          *)
(***************************************************************************)
EXTENDS Integers, Sequences, FiniteSets, TLC

VARIABLES configuration, intl, scripts, inputDirectory, project,
          outputDirectory, console, scriptIndex,
          nodes, comparisons, presort, elements, order,
          result, previousElement, previousIsMultiline, isFirstElement, index, pc

\* What the run is given: the parsed configuration file, whether the runtime's
\* String.prototype.localeCompare is backed by ICU, the script names of the
\* command line, the files of the input directory and the source files the
\* project of tsconfig.json holds.  No step changes them.
environment == <<configuration, intl, scripts, inputDirectory, project>>

\* The locals of handleFile.
handleFileLocals == <<nodes, presort, elements, order, result, previousElement,
                      previousIsMultiline, isFirstElement, index>>

vars == <<environment, outputDirectory, console, scriptIndex, comparisons,
          handleFileLocals, pc>>

(***************************************************************************)
(* Bounds of the model.                                                    *)
(***************************************************************************)
MaxNodes == 3

MaxEntries == 2

MaxComments == 2

MaxGap == 2

MaxValues == 3

MaxScripts == 3

(***************************************************************************)
(* JavaScript values.                                                      *)
(***************************************************************************)
NL == "\n"

null == "null"

undefined == "undefined"

\* Number.MAX_SAFE_INTEGER is 2^53 - 1; the model only compares it with ranks,
\* which are list positions, so the largest integer TLC represents stands for it.
MAX_SAFE_INTEGER == 2147483647

(***************************************************************************)
(* String.prototype.trim, substring and includes on texts.                 *)
(***************************************************************************)
RECURSIVE trimStart(_)
trimStart(text) ==
  IF text # <<>> /\ Head(text) = NL THEN trimStart(Tail(text)) ELSE text

RECURSIVE trimEnd(_)
trimEnd(text) ==
  IF text # <<>> /\ text[Len(text)] = NL
  THEN trimEnd(SubSeq(text, 1, Len(text) - 1))
  ELSE text

trim(text) == trimEnd(trimStart(text))

Clamp(n, len) == IF n < 0 THEN 0 ELSE IF n > len THEN len ELSE n

\* text.substring(from, to): both indices clamped to 0..length and swapped
\* when from > to; the result holds the characters from..to-1 (0-based).
substring(text, from, to) ==
  LET a == Clamp(from, Len(text))
      b == Clamp(to, Len(text))
      lo == IF a <= b THEN a ELSE b
      hi == IF a <= b THEN b ELSE a
  IN SubSeq(text, lo + 1, hi)

includes(text, atom) == \E i \in 1..Len(text) : text[i] = atom

RECURSIVE Newlines(_)
Newlines(n) == IF n <= 0 THEN <<>> ELSE <<NL>> \o Newlines(n - 1)

(***************************************************************************)
(* The enumerations, by the names of their members.                        *)
(***************************************************************************)
Declaration == {"IsDeclared"}

Kind == {"Enumeration", "Type", "Interface", "Variable", "Class", "Function",
         "Header", "Import", "TypeImport"}

Persistance == {"IsConstant"}

Transfer == {"IsExported"}

\* The string values of enum Trait: the keys readConfiguration looks up.
TraitKind == "kind"

TraitName == "name"

TraitPattern == "pattern"

TraitPersistance == "persistance"

TraitTransfer == "transfer"

TraitDeclaration == "declare"

\* The members of enum Kind in declaration order: member i has the number
\* i - 1.  The other enumerations have the single member 0.
KindMembers == <<"Enumeration", "Type", "Interface", "Variable", "Class", "Function",
                 "Header", "Import", "TypeImport">>

membersOf(enumeration) ==
  IF enumeration = Kind THEN KindMembers ELSE <<CHOOSE member \in enumeration : TRUE>>

\* The property names of the reverse mapping of a numeric enum: the member
\* numbers as strings.
numerals == <<"0", "1", "2", "3", "4", "5", "6", "7", "8">>

\* Property names every object inherits from Object.prototype.
inherited == {"constructor", "hasOwnProperty", "toString", "valueOf"}

\* Mutation: a name the enumeration has no property for is kept as its own key.
enumerationValueKept(enumeration, value) ==
  IF value \in enumeration THEN value
  ELSE IF \E n \in 1..Len(membersOf(enumeration)) : numerals[n] = value
  THEN LET n == CHOOSE n \in 1..Len(membersOf(enumeration)) : numerals[n] = value
       IN "'" \o membersOf(enumeration)[n] \o "'"
  ELSE IF value \in inherited THEN "function " \o value
  ELSE value

\* enumeration[value], a property read of the enum object.  A member name
\* gives the member's number, written here as the member name; a member's
\* number as a string gives the member's name, a string, written in quotes;
\* an inherited name gives the function; null and every other name give
\* undefined.
enumerationValue(enumeration, value) ==
  IF value \in enumeration THEN value
  ELSE IF \E n \in 1..Len(membersOf(enumeration)) : numerals[n] = value
  THEN LET n == CHOOSE n \in 1..Len(membersOf(enumeration)) : numerals[n] = value
       IN "'" \o membersOf(enumeration)[n] \o "'"
  ELSE IF value \in inherited THEN "function " \o value
  ELSE undefined

toEnumerationValues(enumeration, values) ==
  [i \in 1..Len(values) |-> enumerationValue(enumeration, values[i])]

(***************************************************************************)
(* Map<K, number>: the entries in insertion order.  set on a key the map   *)
(* already holds replaces its value and keeps its place and the size.      *)
(***************************************************************************)
MapHas(map, key) == \E i \in 1..Len(map) : map[i].key = key

MapGet(map, key) == map[CHOOSE i \in 1..Len(map) : map[i].key = key].rank

MapSet(map, key, rank) ==
  IF MapHas(map, key)
  THEN [i \in 1..Len(map) |->
          IF map[i].key = key THEN [key |-> key, rank |-> rank] ELSE map[i]]
  ELSE Append(map, [key |-> key, rank |-> rank])

\* Element field read by a trait accessor.
traitAccessor(accessor, element) ==
  CASE accessor = TraitKind -> element.kind
    [] accessor = TraitTransfer -> element.transfer
    [] accessor = TraitDeclaration -> element.declaration
    [] accessor = TraitPersistance -> element.persistance
    [] accessor = TraitPattern -> element.text
    [] OTHER -> element.name

(***************************************************************************)
(* Regular expressions.  A RegExp object is its source and its identity    *)
(* (two objects built from the same source are different map keys).  A     *)
(* configured pattern is an atom and matches a text that contains it; the  *)
(* empty source matches every text.                                        *)
(***************************************************************************)
RegExp(source, object) == [source |-> source, object |-> object]

matchAllRegex == RegExp("", 0)

test(regex, key) == regex.source = "" \/ includes(key, regex.source)

(***************************************************************************)
(* TraitSortOrder / PatternSortOrder / NameSortOrder.  A sort order is     *)
(* [class, accessor, map]; map is the Map the order extends.               *)
(***************************************************************************)
RECURSIVE TraitSetParameters(_, _)
TraitSetParameters(map, parameters) ==
  IF parameters = <<>> THEN map
  ELSE TraitSetParameters(MapSet(map, Head(parameters), Len(map)), Tail(parameters))

RECURSIVE PatternSetParameters(_, _, _)
PatternSetParameters(map, parameters, created) ==
  IF parameters = <<>> THEN map
  ELSE LET parameter == Head(parameters)
           regex == IF parameter = null THEN matchAllRegex
                    ELSE RegExp(parameter, created + 1)
       IN PatternSetParameters(MapSet(map, regex, Len(map)), Tail(parameters), created + 1)

TraitSortOrder(accessor, parameters) ==
  [class |-> "TraitSortOrder", accessor |-> accessor,
   map |-> TraitSetParameters(<<>>, parameters)]

PatternSortOrder(accessor, parameters) ==
  [class |-> "PatternSortOrder", accessor |-> accessor,
   map |-> PatternSetParameters(<<>>, parameters, 0)]

NameSortOrder == [class |-> "NameSortOrder", accessor |-> TraitName, map |-> <<>>]

\* Mutation: a value the map lacks falls back to the rank of the null entry.
TraitGetRankWildcard(sortOrder, element) ==
  LET key == traitAccessor(sortOrder.accessor, element)
  IN IF MapHas(sortOrder.map, key) THEN MapGet(sortOrder.map, key)
     ELSE IF MapHas(sortOrder.map, undefined) THEN MapGet(sortOrder.map, undefined)
     ELSE MAX_SAFE_INTEGER

TraitGetRank(sortOrder, element) ==
  LET key == traitAccessor(sortOrder.accessor, element)
  IN IF MapHas(sortOrder.map, key) THEN MapGet(sortOrder.map, key)
     ELSE MAX_SAFE_INTEGER

RECURSIVE PatternScan(_, _, _, _)
PatternScan(map, key, i, matchAllRank) ==
  IF i > Len(map) THEN matchAllRank
  ELSE IF map[i].key = matchAllRegex THEN PatternScan(map, key, i + 1, map[i].rank)
  ELSE IF test(map[i].key, key) THEN map[i].rank
  ELSE PatternScan(map, key, i + 1, matchAllRank)

PatternGetRank(sortOrder, element) ==
  PatternScan(sortOrder.map, traitAccessor(sortOrder.accessor, element), 1,
              MAX_SAFE_INTEGER)

getRank(sortOrder, element) ==
  IF sortOrder.class = "PatternSortOrder" THEN PatternGetRank(sortOrder, element)
  ELSE TraitGetRank(sortOrder, element)

\* Mutation: the higher rank sorts first.
MappedCompareDescending(sortOrder, element1, element2) ==
  LET rank1 == getRank(sortOrder, element1)
      rank2 == getRank(sortOrder, element2)
  IN IF rank1 = rank2 THEN 0 ELSE IF rank1 > rank2 THEN -1 ELSE 1

MappedCompare(sortOrder, element1, element2) ==
  LET rank1 == getRank(sortOrder, element1)
      rank2 == getRank(sortOrder, element2)
  IN IF rank1 = rank2 THEN 0 ELSE IF rank1 < rank2 THEN -1 ELSE 1

\* The names of the model in the order of the locale's collation, and their
\* UTF-16 code units.
collation == <<"", "beta", "C", "f", "fs", "option", "undefined">>

CollationIndex(name) == CHOOSE i \in 1..Len(collation) : collation[i] = name

codeUnits(name) ==
  CASE name = "beta" -> <<98, 101, 116, 97>>
    [] name = "C" -> <<67>>
    [] name = "f" -> <<102>>
    [] name = "fs" -> <<102, 115>>
    [] name = "option" -> <<111, 112, 116, 105, 111, 110>>
    [] name = "undefined" -> <<117, 110, 100, 101, 102, 105, 110, 101, 100>>
    [] OTHER -> <<>>

RECURSIVE CompareCodeUnits(_, _, _)
CompareCodeUnits(units1, units2, k) ==
  IF k > Len(units1) \/ k > Len(units2) THEN Len(units1) - Len(units2)
  ELSE IF units1[k] # units2[k] THEN units1[k] - units2[k]
  ELSE CompareCodeUnits(units1, units2, k + 1)

\* String.prototype.localeCompare returns a negative number, zero or a
\* positive number; which number is up to the runtime.  With ICU it is the
\* collator's -1, 0 or 1; a runtime built without ICU compares the code units
\* and returns the first difference, or the difference of the lengths.
localeCompare(name1, name2) ==
  IF intl
  THEN LET i == CollationIndex(name1)
           j == CollationIndex(name2)
       IN IF i = j THEN 0 ELSE IF i < j THEN -1 ELSE 1
  ELSE CompareCodeUnits(codeUnits(name1), codeUnits(name2), 1)

\* An undefined name2 is converted to the string "undefined".
NameCompare(element1, element2) == localeCompare(element1.name, element2.name)

\* element1.name.localeCompare throws a TypeError when element1 has no name.
NameCompareThrows(element1) == element1.name = undefined

compare(sortOrder, element1, element2) ==
  IF sortOrder.class = "NameSortOrder" THEN NameCompare(element1, element2)
  ELSE MappedCompare(sortOrder, element1, element2)

getComparator(sortOrder, name, ignoreIfSingleLine) ==
  [sortOrder |-> sortOrder, comparatorName |-> name,
   ignoreIfSingleLine |-> ignoreIfSingleLine]

\* Mutation: the comparators marked ignoreIfSingleLine are never skipped.
RECURSIVE compareFromNoSkip(_, _, _, _, _)
compareFromNoSkip(chain, i, element1, element2, useIgnoreIfSingleLine) ==
  IF i > Len(chain) THEN 0
  ELSE LET comparison == compare(chain[i].sortOrder, element1, element2)
       IN IF comparison # 0 THEN comparison
          ELSE compareFromNoSkip(chain, i + 1, element1, element2, useIgnoreIfSingleLine)

\* Mutation: the last comparator with a nonzero result decides.
RECURSIVE compareFromLastWins(_, _, _, _, _)
compareFromLastWins(chain, i, element1, element2, useIgnoreIfSingleLine) ==
  IF i > Len(chain) THEN 0
  ELSE LET later == compareFromLastWins(chain, i + 1, element1, element2,
                                        useIgnoreIfSingleLine)
       IN IF useIgnoreIfSingleLine /\ chain[i].ignoreIfSingleLine THEN later
          ELSE IF later # 0 THEN later
          ELSE compare(chain[i].sortOrder, element1, element2)

\* The chain, from index i on.
RECURSIVE compareFrom(_, _, _, _, _)
compareFrom(chain, i, element1, element2, useIgnoreIfSingleLine) ==
  IF i > Len(chain) THEN 0
  ELSE IF useIgnoreIfSingleLine /\ chain[i].ignoreIfSingleLine
       THEN compareFrom(chain, i + 1, element1, element2, useIgnoreIfSingleLine)
       ELSE LET comparison == compare(chain[i].sortOrder, element1, element2)
            IN IF comparison # 0 THEN comparison
               ELSE compareFrom(chain, i + 1, element1, element2, useIgnoreIfSingleLine)

compareElements(element1, element2, useIgnoreIfSingleLine) ==
  compareFrom(comparisons, 1, element1, element2, useIgnoreIfSingleLine)

\* Whether the chain, from index i on, calls a comparator that throws.
RECURSIVE compareThrowsFrom(_, _, _, _, _)
compareThrowsFrom(chain, i, element1, element2, useIgnoreIfSingleLine) ==
  IF i > Len(chain) THEN FALSE
  ELSE IF useIgnoreIfSingleLine /\ chain[i].ignoreIfSingleLine
       THEN compareThrowsFrom(chain, i + 1, element1, element2, useIgnoreIfSingleLine)
       ELSE IF chain[i].sortOrder.class = "NameSortOrder"
            THEN NameCompareThrows(element1)
                 \/ /\ NameCompare(element1, element2) = 0
                    /\ compareThrowsFrom(chain, i + 1, element1, element2,
                                         useIgnoreIfSingleLine)
            ELSE /\ MappedCompare(chain[i].sortOrder, element1, element2) = 0
                 /\ compareThrowsFrom(chain, i + 1, element1, element2,
                                      useIgnoreIfSingleLine)

compareElementsThrows(element1, element2, useIgnoreIfSingleLine) ==
  compareThrowsFrom(comparisons, 1, element1, element2, useIgnoreIfSingleLine)

(***************************************************************************)
(* readConfiguration.  An entry of the configuration is                    *)
(* [key, values, ignoreIfSingleLine]: its one trait key, the value list    *)
(* under that key, and the ignoreIfSingleLine property as a sequence that  *)
(* is empty when the entry does not have the property.                     *)
(***************************************************************************)
EntryComparators(entry) ==
  LET ignoreIfSingleLine ==
        IF entry.ignoreIfSingleLine = <<>> THEN FALSE ELSE entry.ignoreIfSingleLine[1]
      traitValues == entry.values
  IN CASE entry.key = TraitKind ->
            <<getComparator(TraitSortOrder(TraitKind, toEnumerationValues(Kind, traitValues)),
                            TraitKind, ignoreIfSingleLine)>>
       [] entry.key = TraitTransfer ->
            <<getComparator(TraitSortOrder(TraitTransfer, toEnumerationValues(Transfer, traitValues)),
                            TraitTransfer, ignoreIfSingleLine)>>
       [] entry.key = TraitDeclaration ->
            <<getComparator(TraitSortOrder(TraitDeclaration, toEnumerationValues(Declaration, traitValues)),
                            TraitDeclaration, ignoreIfSingleLine)>>
       [] entry.key = TraitPersistance ->
            <<getComparator(TraitSortOrder(TraitPersistance, toEnumerationValues(Persistance, traitValues)),
                            TraitPersistance, ignoreIfSingleLine)>>
       [] entry.key = TraitPattern ->
            <<getComparator(PatternSortOrder(TraitPattern, traitValues),
                            TraitPattern, ignoreIfSingleLine)>>
       [] entry.key = TraitName ->
            <<getComparator(NameSortOrder, TraitName, ignoreIfSingleLine)>>
       [] OTHER -> <<>>

RECURSIVE readConfiguration(_, _)
readConfiguration(chain, configurationComparisons) ==
  IF configurationComparisons = <<>> THEN chain
  ELSE readConfiguration(chain \o EntryComparators(Head(configurationComparisons)),
                         Tail(configurationComparisons))

(***************************************************************************)
(* Nodes of the parse tree.  A node is                                     *)
(*   [syntaxKind, typeKeyword, exportKeyword, declareKeyword, const, name, *)
(*    lead, comments, text]                                                *)
(* lead is the trivia before the first leading comment (before the node's  *)
(* start when it has none), comments the leading comment ranges, each      *)
(* [text, gap] with gap the number of characters between its end and the   *)
(* next comment (the node's start after the last one), text the node's     *)
(* text without trivia.  pos is the offset of the node in the file.        *)
(***************************************************************************)
RECURSIVE CommentsText(_)
CommentsText(comments) ==
  IF comments = <<>> THEN <<>>
  ELSE Head(comments).text \o Newlines(Head(comments).gap) \o CommentsText(Tail(comments))

getText(node) == node.text

getFullText(node) == node.lead \o CommentsText(node.comments) \o node.text

getStart(node, pos) == pos + Len(getFullText(node)) - Len(node.text)

getLeadingTriviaWidth(node, pos) == getStart(node, pos) - pos

\* Offset of leading comment range i (0-based) and of its end.
CommentRangePos(node, pos, i) ==
  pos + Len(node.lead) + Len(CommentsText(SubSeq(node.comments, 1, i)))

CommentRangeEnd(node, pos, i) ==
  CommentRangePos(node, pos, i) + Len(node.comments[i + 1].text)

\* Mutation: a distance of one character already counts as a gap.
RECURSIVE CommentGapScanNarrow(_, _, _)
CommentGapScanNarrow(node, pos, i) ==
  LET commentRangesUpperIndex == Len(node.comments) - 1
  IN IF i > commentRangesUpperIndex THEN 0
     ELSE LET end == CommentRangeEnd(node, pos, i)
              start == IF i = commentRangesUpperIndex THEN getStart(node, pos)
                       ELSE CommentRangePos(node, pos, i + 1)
              difference == start - end
              hasGap == 0 < difference
          IN IF hasGap THEN i + 1 ELSE CommentGapScanNarrow(node, pos, i + 1)

RECURSIVE CommentGapScan(_, _, _)
CommentGapScan(node, pos, i) ==
  LET commentRangesUpperIndex == Len(node.comments) - 1
  IN IF i > commentRangesUpperIndex THEN 0
     ELSE LET end == CommentRangeEnd(node, pos, i)
              start == IF i = commentRangesUpperIndex THEN getStart(node, pos)
                       ELSE CommentRangePos(node, pos, i + 1)
              difference == start - end
              hasGap == 1 < difference
          IN IF hasGap THEN i + 1 ELSE CommentGapScan(node, pos, i + 1)

getCommentGapIndex(node, pos) == CommentGapScan(node, pos, 0)

\* Mutation: the comment at the gap index goes to the header as well.
RECURSIVE SplitLoopInclusive(_, _, _, _, _, _)
SplitLoopInclusive(node, pos, commentGapIndex, i, header, rest) ==
  LET commentRangesLength == Len(node.comments)
  IN IF i > commentRangesLength THEN <<header, rest>>
     ELSE LET text ==
                IF i = commentRangesLength THEN getText(node)
                ELSE IF i = 0
                     THEN substring(getFullText(node), pos, CommentRangeEnd(node, pos, 0) - pos)
                     ELSE node.comments[i + 1].text
              trimmed == trim(text)
          IN IF i <= commentGapIndex /\ i < commentRangesLength
             THEN SplitLoopInclusive(node, pos, commentGapIndex, i + 1,
                                     header \o trimmed \o <<NL>>, rest)
             ELSE SplitLoopInclusive(node, pos, commentGapIndex, i + 1,
                                     header, rest \o trimmed \o <<NL>>)

\* The loop of splitToHeaderAndRest from index i on: <<header, rest>>.
RECURSIVE SplitLoop(_, _, _, _, _, _)
SplitLoop(node, pos, commentGapIndex, i, header, rest) ==
  LET commentRangesLength == Len(node.comments)
  IN IF i > commentRangesLength THEN <<header, rest>>
     ELSE LET text ==
                IF i = commentRangesLength THEN getText(node)
                ELSE IF i = 0
                     THEN LET commentPos == pos
                              commentEnd == CommentRangeEnd(node, pos, 0) - commentPos
                          IN substring(getFullText(node), commentPos, commentEnd)
                     ELSE node.comments[i + 1].text
              trimmed == trim(text)
          IN IF i < commentGapIndex
             THEN SplitLoop(node, pos, commentGapIndex, i + 1,
                            header \o trimmed \o <<NL>>, rest)
             ELSE SplitLoop(node, pos, commentGapIndex, i + 1,
                            header, rest \o trimmed \o <<NL>>)

splitToHeaderAndRest(node, pos, split) ==
  IF split
  THEN LET commentRangesLength == Len(node.comments)
           headerAndRest ==
             IF commentRangesLength = 0
             THEN LET triviaWidth == getLeadingTriviaWidth(node, pos)
                  IN IF 0 < triviaWidth
                     THEN <<substring(getFullText(node), pos, pos + triviaWidth),
                            getText(node)>>
                     ELSE <<(<<>>), getFullText(node)>>
             ELSE SplitLoop(node, pos, getCommentGapIndex(node, pos), 0, <<>>, <<>>)
       IN <<trim(headerAndRest[1]), trim(headerAndRest[2])>>
  ELSE <<(<<>>), trim(getFullText(node))>>

(***************************************************************************)
(* Trait extraction.                                                       *)
(***************************************************************************)
getKind(node) ==
  CASE node.syntaxKind = "EnumDeclaration" -> "Enumeration"
    [] node.syntaxKind = "TypeAliasDeclaration" -> "Type"
    [] node.syntaxKind = "InterfaceDeclaration" -> "Interface"
    [] node.syntaxKind = "VariableStatement" -> "Variable"
    [] node.syntaxKind = "ClassDeclaration" -> "Class"
    [] node.syntaxKind = "FunctionDeclaration" -> "Function"
    [] node.syntaxKind = "ImportDeclaration" ->
         IF node.typeKeyword THEN "TypeImport" ELSE "Import"
    [] OTHER -> undefined

\* node.name is the name the node's variant resolves to.
getName(node) == node.name

getPersistance(node) ==
  IF node.syntaxKind = "VariableStatement" /\ node.const THEN "IsConstant" ELSE undefined

getTransfer(node) == IF node.exportKeyword THEN "IsExported" ELSE undefined

getDeclaration(node) == IF node.declareKeyword THEN "IsDeclared" ELSE undefined

Element(kind, transfer, persistance, declaration, name, text) ==
  [kind |-> kind, transfer |-> transfer, persistance |-> persistance,
   declaration |-> declaration, name |-> name, text |-> text]

\* Mutation: the rest is yielded without the test of its length.
NodeElementsUnguarded(node, pos, isFirstNode) ==
  LET headerAndRest == splitToHeaderAndRest(node, pos, isFirstNode)
      header == headerAndRest[1]
      rest == headerAndRest[2]
  IN (IF 0 < Len(header)
      THEN <<Element("Header", undefined, undefined, undefined, "", header)>>
      ELSE <<>>)
     \o
     <<Element(getKind(node), getTransfer(node), getPersistance(node),
               getDeclaration(node), getName(node), rest)>>

\* The elements one node yields.
NodeElements(node, pos, isFirstNode) ==
  LET headerAndRest == splitToHeaderAndRest(node, pos, isFirstNode)
      header == headerAndRest[1]
      rest == headerAndRest[2]
  IN (IF 0 < Len(header)
      THEN <<Element("Header", undefined, undefined, undefined, "", header)>>
      ELSE <<>>)
     \o
     (IF 0 < Len(rest)
      THEN <<Element(getKind(node), getTransfer(node), getPersistance(node),
                     getDeclaration(node), getName(node), rest)>>
      ELSE <<>>)

\* Mutation: isFirstNode is never cleared.
RECURSIVE ElementsFromAlwaysFirst(_, _, _)
ElementsFromAlwaysFirst(remaining, pos, isFirstNode) ==
  IF remaining = <<>> THEN <<>>
  ELSE NodeElements(Head(remaining), pos, isFirstNode)
       \o ElementsFromAlwaysFirst(Tail(remaining),
                                  pos + Len(getFullText(Head(remaining))), isFirstNode)

RECURSIVE ElementsFrom(_, _, _)
ElementsFrom(remaining, pos, isFirstNode) ==
  IF remaining = <<>> THEN <<>>
  ELSE NodeElements(Head(remaining), pos, isFirstNode)
       \o ElementsFrom(Tail(remaining), pos + Len(getFullText(Head(remaining))), FALSE)

getElements(sourceNodes) == ElementsFrom(sourceNodes, 0, TRUE)

\* Mutation: the text is searched for a line break the texts do not contain.
isMultilineCarriageReturn(element) == includes(element.text, "\r\n")

isMultiline(element) == includes(element.text, NL)

(***************************************************************************)
(* Array.prototype.sort with the full chain: a stable insertion sort.      *)
(* The array is sorted as a sequence of indices into it, so that the       *)
(* identity of equal-looking elements is kept.                             *)
(***************************************************************************)
\* Mutation: an element is put in front of the elements it compares equal to.
RECURSIVE InsertionPointBeforeEqual(_, _, _, _)
InsertionPointBeforeEqual(array, sorted, x, p) ==
  IF p = 0 THEN 0
  ELSE IF compareElements(array[x], array[sorted[p]], FALSE) <= 0
       THEN InsertionPointBeforeEqual(array, sorted, x, p - 1)
       ELSE p

RECURSIVE InsertionPoint(_, _, _, _)
InsertionPoint(array, sorted, x, p) ==
  IF p = 0 THEN 0
  ELSE IF compareElements(array[x], array[sorted[p]], FALSE) < 0
       THEN InsertionPoint(array, sorted, x, p - 1)
       ELSE p

\* Mutation: the element is written over its successor instead of inserted.
RECURSIVE SortFromOverwrite(_, _, _)
SortFromOverwrite(array, sorted, x) ==
  IF x > Len(array) THEN sorted
  ELSE LET p == InsertionPoint(array, sorted, x, Len(sorted))
       IN SortFromOverwrite(array,
                            SubSeq(sorted, 1, p) \o <<x>> \o SubSeq(sorted, p + 2, Len(sorted)),
                            x + 1)

RECURSIVE SortFrom(_, _, _)
SortFrom(array, sorted, x) ==
  IF x > Len(array) THEN sorted
  ELSE LET p == InsertionPoint(array, sorted, x, Len(sorted))
       IN SortFrom(array,
                   SubSeq(sorted, 1, p) \o <<x>> \o SubSeq(sorted, p + 1, Len(sorted)),
                   x + 1)

\* Mutation: the array is left as it is.
sortNothing(array) == [i \in 1..Len(array) |-> i]

sort(array) == SortFrom(array, <<>>, 1)

\* Whether a call of the comparison function throws while element x is
\* inserted, and while the array is sorted from element x on.
RECURSIVE InsertionThrows(_, _, _, _)
InsertionThrows(array, sorted, x, p) ==
  IF p = 0 THEN FALSE
  ELSE \/ compareElementsThrows(array[x], array[sorted[p]], FALSE)
       \/ /\ compareElements(array[x], array[sorted[p]], FALSE) < 0
          /\ InsertionThrows(array, sorted, x, p - 1)

RECURSIVE SortThrowsFrom(_, _, _)
SortThrowsFrom(array, sorted, x) ==
  IF x > Len(array) THEN FALSE
  ELSE \/ InsertionThrows(array, sorted, x, Len(sorted))
       \/ LET p == InsertionPoint(array, sorted, x, Len(sorted))
          IN SortThrowsFrom(array,
                            SubSeq(sorted, 1, p) \o <<x>> \o SubSeq(sorted, p + 1, Len(sorted)),
                            x + 1)

sortThrows(array) == SortThrowsFrom(array, <<>>, 1)

Permute(array, permutation) == [i \in 1..Len(permutation) |-> array[permutation[i]]]

(***************************************************************************)
(* The file system.  A file name is a sequence of atoms, so that           *)
(* outputPath + ".backup" is a concatenation; a directory maps a file name *)
(* to <<>> when it has no such file and to <<content>> when it has.  The   *)
(* content of a script of the input directory is its parse tree (the       *)
(* top-level nodes), the content of an output file is a text.              *)
(***************************************************************************)
existsSync(directory, name) == directory[name] # <<>>

Backup(outputPath) == outputPath \o <<".backup">>

copyFileSync(directory, source, destination) ==
  [directory EXCEPT ![destination] = directory[source]]

writeFileSync(directory, name, text) == [directory EXCEPT ![name] = <<text>>]

ErrorMessage(message) == <<"error: ", message>>

help == <<"$(HELP)">>

(***************************************************************************)
(* main: readConfiguration, then the loop over the scripts; handleFile is  *)
(* the steps BeginScript (its first two statements), GetElements,          *)
(* SortElements, EmitElement and ReturnResult.                             *)
(***************************************************************************)
ReadConfiguration ==
  /\ pc = "readConfiguration"
  /\ configuration.defined
  /\ comparisons' = readConfiguration(comparisons, configuration.comparisons)
  /\ pc' = "scripts"
  /\ UNCHANGED <<environment, outputDirectory, console, scriptIndex, handleFileLocals>>

\* Mutation: a configuration without "comparisons" is read as an empty chain.
ReadConfigurationWithoutAssert ==
  /\ pc = "readConfiguration"
  /\ ~configuration.defined
  /\ pc' = "scripts"
  /\ UNCHANGED <<environment, outputDirectory, console, scriptIndex, comparisons,
                 handleFileLocals>>

\* The assertion on the "comparisons" property fails; main reports the error.
ReadConfigurationFails ==
  /\ pc = "readConfiguration"
  /\ ~configuration.defined
  /\ console' = console \o <<ErrorMessage("property 'comparisons' missing in configuration"),
                             help>>
  /\ pc' = "error"
  /\ UNCHANGED <<environment, outputDirectory, scriptIndex, comparisons, handleFileLocals>>

\* Mutation: a script the input directory lacks is skipped.
InputPathMissingSkipped ==
  /\ pc = "scripts"
  /\ scriptIndex < Len(scripts)
  /\ ~existsSync(inputDirectory, scripts[scriptIndex + 1])
  /\ scriptIndex' = scriptIndex + 1
  /\ UNCHANGED <<environment, outputDirectory, console, comparisons, handleFileLocals, pc>>

\* The assertion on the input path fails.
InputPathMissing ==
  /\ pc = "scripts"
  /\ scriptIndex < Len(scripts)
  /\ ~existsSync(inputDirectory, scripts[scriptIndex + 1])
  /\ console' = console \o <<ErrorMessage("could not find input-path"), help>>
  /\ pc' = "error"
  /\ UNCHANGED <<environment, outputDirectory, scriptIndex, comparisons, handleFileLocals>>

\* The backup of an existing output file, the log line and the call of
\* handleFile, whose project does not hold the script: source is undefined and
\* source.forEachChildAsArray() throws.
SourceFileMissing ==
  /\ pc = "scripts"
  /\ scriptIndex < Len(scripts)
  /\ LET scriptFilename == scripts[scriptIndex + 1]
     IN /\ existsSync(inputDirectory, scriptFilename)
        /\ scriptFilename \notin project
        /\ outputDirectory' =
             IF existsSync(outputDirectory, scriptFilename)
             THEN copyFileSync(outputDirectory, scriptFilename, Backup(scriptFilename))
             ELSE outputDirectory
        /\ console' = console \o <<(<<"in">> \o scriptFilename \o <<" => ", "out">> \o scriptFilename),
                                   ErrorMessage("Cannot read properties of undefined"),
                                   help>>
  /\ pc' = "error"
  /\ UNCHANGED <<environment, scriptIndex, comparisons, handleFileLocals>>

\* The backup of an existing output file, the log line and the call of
\* handleFile up to the source file it reads.
BeginScript ==
  /\ pc = "scripts"
  /\ scriptIndex < Len(scripts)
  /\ LET scriptFilename == scripts[scriptIndex + 1]
     IN /\ existsSync(inputDirectory, scriptFilename)
        /\ scriptFilename \in project
        /\ outputDirectory' =
             IF existsSync(outputDirectory, scriptFilename)
             THEN copyFileSync(outputDirectory, scriptFilename, Backup(scriptFilename))
             ELSE outputDirectory
        /\ console' = Append(console,
                             <<"in">> \o scriptFilename \o <<" => ", "out">> \o scriptFilename)
        /\ nodes' = inputDirectory[scriptFilename][1]
  /\ pc' = "getElements"
  /\ UNCHANGED <<environment, scriptIndex, comparisons, presort, elements, order, result,
                 previousElement, previousIsMultiline, isFirstElement, index>>

GetElements ==
  /\ pc = "getElements"
  /\ elements' = getElements(nodes)
  /\ presort' = elements'
  /\ pc' = "sort"
  /\ UNCHANGED <<environment, outputDirectory, console, scriptIndex, comparisons,
                 nodes, order, result, previousElement, previousIsMultiline,
                 isFirstElement, index>>

\* The comparison function throws during elements.sort; main reports the error.
SortElementsThrows ==
  /\ pc = "sort"
  /\ sortThrows(elements)
  /\ console' = console \o <<ErrorMessage("Cannot read properties of undefined"), help>>
  /\ pc' = "error"
  /\ UNCHANGED <<environment, outputDirectory, scriptIndex, comparisons, handleFileLocals>>

SortElements ==
  /\ pc = "sort"
  /\ ~sortThrows(elements)
  /\ order' = sort(elements)
  /\ elements' = Permute(elements, order')
  /\ result' = <<>>
  /\ previousIsMultiline' = FALSE
  /\ previousElement' = <<>>
  /\ isFirstElement' = TRUE
  /\ index' = 0
  /\ pc' = "emit"
  /\ UNCHANGED <<environment, outputDirectory, console, scriptIndex, comparisons,
                 nodes, presort>>

\* The comparison with the previous element throws in the loop over the sorted
\* elements; main reports the error.
EmitElementThrows ==
  /\ pc = "emit"
  /\ index < Len(elements)
  /\ previousElement # <<>>
  /\ compareElementsThrows(elements[index + 1], previousElement[1], TRUE)
  /\ console' = console \o <<ErrorMessage("Cannot read properties of undefined"), help>>
  /\ pc' = "error"
  /\ UNCHANGED <<environment, outputDirectory, scriptIndex, comparisons, handleFileLocals>>

\* Mutation: every iteration writes the text built so far to the output path.
EmitElementToFile ==
  /\ pc = "emit"
  /\ index < Len(elements)
  /\ previousElement # <<>> =>
       ~compareElementsThrows(elements[index + 1], previousElement[1], TRUE)
  /\ result' = result \o trim(elements[index + 1].text) \o <<NL>>
  /\ outputDirectory' = writeFileSync(outputDirectory, scripts[scriptIndex + 1], result')
  /\ previousIsMultiline' = isMultiline(elements[index + 1])
  /\ previousElement' = <<elements[index + 1]>>
  /\ isFirstElement' = FALSE
  /\ index' = index + 1
  /\ UNCHANGED <<environment, console, scriptIndex, comparisons,
                 nodes, presort, elements, order, pc>>

\* One iteration of the loop over the sorted elements.  previousElement is a
\* sequence: empty while the variable is undefined.
EmitElement ==
  /\ pc = "emit"
  /\ index < Len(elements)
  /\ previousElement # <<>> =>
       ~compareElementsThrows(elements[index + 1], previousElement[1], TRUE)
  /\ LET element == elements[index + 1]
         currentIsMultiline == isMultiline(element)
         needsBlankLine ==
           /\ previousElement # <<>>
           /\ compareElements(element, previousElement[1], TRUE) # 0
     IN /\ result' =
             result
             \o (IF ~isFirstElement
                    /\ (needsBlankLine \/ currentIsMultiline \/ previousIsMultiline)
                 THEN <<NL>> ELSE <<>>)
             \o trim(element.text) \o <<NL>>
        /\ previousIsMultiline' = currentIsMultiline
        /\ previousElement' = <<element>>
        /\ isFirstElement' = FALSE
  /\ index' = index + 1
  /\ UNCHANGED <<environment, outputDirectory, console, scriptIndex, comparisons,
                 nodes, presort, elements, order, pc>>

\* Mutation: the configuration is read again after every script.
ReturnResultReadingAgain ==
  /\ pc = "emit"
  /\ index = Len(elements)
  /\ outputDirectory' = writeFileSync(outputDirectory, scripts[scriptIndex + 1], result)
  /\ comparisons' = readConfiguration(comparisons, configuration.comparisons)
  /\ scriptIndex' = scriptIndex + 1
  /\ pc' = "scripts"
  /\ UNCHANGED <<environment, console, handleFileLocals>>

\* handleFile returns its result and main writes it to the output path.
ReturnResult ==
  /\ pc = "emit"
  /\ index = Len(elements)
  /\ outputDirectory' = writeFileSync(outputDirectory, scripts[scriptIndex + 1], result)
  /\ scriptIndex' = scriptIndex + 1
  /\ pc' = "scripts"
  /\ UNCHANGED <<environment, console, comparisons, handleFileLocals>>

\* The loop over the scripts ends.
MainReturns ==
  /\ pc = "scripts"
  /\ scriptIndex = Len(scripts)
  /\ pc' = "done"
  /\ UNCHANGED <<environment, outputDirectory, console, scriptIndex, comparisons,
                 handleFileLocals>>

Next ==
  \/ ReadConfiguration
  \/ ReadConfigurationFails
  \/ InputPathMissing
  \/ SourceFileMissing
  \/ BeginScript
  \/ GetElements
  \/ SortElementsThrows
  \/ SortElements
  \/ EmitElementThrows
  \/ EmitElement
  \/ ReturnResult
  \/ MainReturns

(***************************************************************************)
(* src/main.ts: the variant with the traits headerness, importness, kind,  *)
(* exportness, persistance, regularExpression and name.  Its definitions   *)
(* carry the prefix MainTs where the final variant has one of the same     *)
(* name; its positions are the values of pc that start with "main.ts:".    *)
(***************************************************************************)
Exportness == {"IsExported"}

Headerness == {"IsHeader"}

Importness == {"IsImport", "IsTypeImport"}

\* The members of ts-morph's SyntaxKind the model's nodes have.
SyntaxKind == {"ImportDeclaration", "VariableStatement", "FunctionDeclaration",
               "ClassDeclaration", "EnumDeclaration", "TypeAliasDeclaration",
               "InterfaceDeclaration", "ExpressionStatement", "EndOfFileToken"}

comparatorNameExportness == "exportness"

comparatorNameHeaderness == "headerness"

comparatorNameImportness == "importness"

comparatorNameKind == "kind"

comparatorNameName == "name"

comparatorNamePersistance == "persistance"

comparatorNameRegularExpression == "regularExpression"

\* The key no parameter of a configuration file produces: a JSON array holds
\* no undefined.
undefinedRegex == RegExp(undefined, 0)

\* Element field read by a trait accessor.
MainTsTraitAccessor(accessor, element) ==
  CASE accessor = comparatorNameHeaderness -> element.headerness
    [] accessor = comparatorNameImportness -> element.importness
    [] accessor = comparatorNameKind -> element.kind
    [] accessor = comparatorNameExportness -> element.exportness
    [] accessor = comparatorNamePersistance -> element.persistance
    [] accessor = comparatorNameRegularExpression -> element.text
    [] OTHER -> element.name

\* new RegExp(null) is /null/: null is only a pattern like every other.
RECURSIVE RegularExpressionSetParameters(_, _, _)
RegularExpressionSetParameters(map, parameters, created) ==
  IF parameters = <<>> THEN map
  ELSE LET parameter == Head(parameters)
           regex == IF parameter = undefined THEN undefinedRegex
                    ELSE RegExp(parameter, created + 1)
       IN RegularExpressionSetParameters(MapSet(map, regex, Len(map)), Tail(parameters),
                                         created + 1)

RegularExpressionSortOrder(accessor, parameters) ==
  [class |-> "RegularExpressionSortOrder", accessor |-> accessor,
   map |-> RegularExpressionSetParameters(<<>>, parameters, 0)]

RECURSIVE RegularExpressionScan(_, _, _)
RegularExpressionScan(map, key, i) ==
  IF i > Len(map)
  THEN IF MapHas(map, undefinedRegex) THEN MapGet(map, undefinedRegex)
       ELSE MAX_SAFE_INTEGER
  ELSE IF map[i].key # undefinedRegex /\ test(map[i].key, key) THEN map[i].rank
  ELSE RegularExpressionScan(map, key, i + 1)

RegularExpressionGetRank(sortOrder, element) ==
  RegularExpressionScan(sortOrder.map, MainTsTraitAccessor(sortOrder.accessor, element), 1)

MainTsTraitGetRank(sortOrder, element) ==
  LET key == MainTsTraitAccessor(sortOrder.accessor, element)
  IN IF MapHas(sortOrder.map, key) THEN MapGet(sortOrder.map, key)
     ELSE MAX_SAFE_INTEGER

MainTsGetRank(sortOrder, element) ==
  IF sortOrder.class = "RegularExpressionSortOrder"
  THEN RegularExpressionGetRank(sortOrder, element)
  ELSE MainTsTraitGetRank(sortOrder, element)

MainTsMappedCompare(sortOrder, element1, element2) ==
  LET rank1 == MainTsGetRank(sortOrder, element1)
      rank2 == MainTsGetRank(sortOrder, element2)
  IN IF rank1 = rank2 THEN 0 ELSE IF rank1 < rank2 THEN -1 ELSE 1

MainTsCompare(sortOrder, element1, element2) ==
  IF sortOrder.class = "NameSortOrder" THEN NameCompare(element1, element2)
  ELSE MainTsMappedCompare(sortOrder, element1, element2)

MainTsGetComparator(sortOrder, name, ignoreWhenSingleLine) ==
  [sortOrder |-> sortOrder, comparatorName |-> name,
   ignoreWhenSingleLine |-> ignoreWhenSingleLine]

\* The chain, from index i on.
RECURSIVE MainTsCompareFrom(_, _, _, _, _)
MainTsCompareFrom(chain, i, element1, element2, multiline) ==
  IF i > Len(chain) THEN 0
  ELSE IF ~multiline /\ chain[i].ignoreWhenSingleLine
       THEN MainTsCompareFrom(chain, i + 1, element1, element2, multiline)
       ELSE LET comparison == MainTsCompare(chain[i].sortOrder, element1, element2)
            IN IF comparison # 0 THEN comparison
               ELSE MainTsCompareFrom(chain, i + 1, element1, element2, multiline)

MainTsCompareElements(element1, element2, multiline) ==
  MainTsCompareFrom(comparisons, 1, element1, element2, multiline)

\* Whether the chain, from index i on, calls a comparator that throws.
RECURSIVE MainTsCompareThrowsFrom(_, _, _, _, _)
MainTsCompareThrowsFrom(chain, i, element1, element2, multiline) ==
  IF i > Len(chain) THEN FALSE
  ELSE IF ~multiline /\ chain[i].ignoreWhenSingleLine
       THEN MainTsCompareThrowsFrom(chain, i + 1, element1, element2, multiline)
       ELSE IF chain[i].sortOrder.class = "NameSortOrder"
            THEN NameCompareThrows(element1)
                 \/ /\ NameCompare(element1, element2) = 0
                    /\ MainTsCompareThrowsFrom(chain, i + 1, element1, element2, multiline)
            ELSE /\ MainTsMappedCompare(chain[i].sortOrder, element1, element2) = 0
                 /\ MainTsCompareThrowsFrom(chain, i + 1, element1, element2, multiline)

MainTsCompareElementsThrows(element1, element2, multiline) ==
  MainTsCompareThrowsFrom(comparisons, 1, element1, element2, multiline)

\* An entry of the configuration is [key, values, ignoreWhenSingleLine], the
\* last a sequence that is empty when the entry does not have the property.
MainTsEntryComparators(entry) ==
  LET ignoreWhenSingleLine ==
        IF entry.ignoreWhenSingleLine = <<>> THEN FALSE ELSE entry.ignoreWhenSingleLine[1]
      traitValues == entry.values
      Trait(name, enumeration) ==
        <<MainTsGetComparator(TraitSortOrder(name, toEnumerationValues(enumeration, traitValues)),
                              name, ignoreWhenSingleLine)>>
  IN CASE entry.key = comparatorNameHeaderness -> Trait(comparatorNameHeaderness, Headerness)
       [] entry.key = comparatorNameImportness -> Trait(comparatorNameImportness, Importness)
       [] entry.key = comparatorNameKind -> Trait(comparatorNameKind, SyntaxKind)
       [] entry.key = comparatorNameExportness -> Trait(comparatorNameExportness, Exportness)
       [] entry.key = comparatorNamePersistance -> Trait(comparatorNamePersistance, Persistance)
       [] entry.key = comparatorNameRegularExpression ->
            <<MainTsGetComparator(
                RegularExpressionSortOrder(comparatorNameRegularExpression, traitValues),
                comparatorNameRegularExpression, ignoreWhenSingleLine)>>
       [] entry.key = comparatorNameName ->
            <<MainTsGetComparator(NameSortOrder, comparatorNameName, ignoreWhenSingleLine)>>
       [] OTHER -> <<>>

RECURSIVE MainTsReadConfigurationFrom(_, _)
MainTsReadConfigurationFrom(chain, configurationComparisons) ==
  IF configurationComparisons = <<>> THEN chain
  ELSE MainTsReadConfigurationFrom(chain \o MainTsEntryComparators(Head(configurationComparisons)),
                                   Tail(configurationComparisons))

\* The loop of splitToHeaderAndRest from index i on: <<header, rest>>.
RECURSIVE MainTsSplitLoop(_, _, _, _, _)
MainTsSplitLoop(node, commentGapIndex, i, header, rest) ==
  LET commentRangesLength == Len(node.comments)
  IN IF i > commentRangesLength THEN <<header, rest>>
     ELSE LET text == IF i = commentRangesLength THEN trim(getText(node))
                      ELSE trim(node.comments[i + 1].text)
          IN IF i < commentGapIndex
             THEN MainTsSplitLoop(node, commentGapIndex, i + 1, header \o text \o <<NL>>, rest)
             ELSE MainTsSplitLoop(node, commentGapIndex, i + 1, header, rest \o text \o <<NL>>)

MainTsSplitToHeaderAndRest(node, pos, split) ==
  IF split
  THEN LET headerAndRest == MainTsSplitLoop(node, getCommentGapIndex(node, pos), 0, <<>>, <<>>)
       IN <<trim(headerAndRest[1]), trim(headerAndRest[2])>>
  ELSE <<(<<>>), trim(getFullText(node))>>

getExportness(node) == IF node.exportKeyword THEN "IsExported" ELSE undefined

getImportness(node) ==
  IF node.syntaxKind = "ImportDeclaration"
  THEN IF node.typeKeyword THEN "IsTypeImport" ELSE "IsImport"
  ELSE undefined

\* The name of an interface is the text of its declaration.
MainTsGetName(node) ==
  IF node.syntaxKind = "InterfaceDeclaration" THEN getText(node) ELSE node.name

MainTsElement(headerness, importness, kind, exportness, persistance, name, text) ==
  [headerness |-> headerness, importness |-> importness, kind |-> kind,
   exportness |-> exportness, persistance |-> persistance, name |-> name, text |-> text]

\* The elements one node yields.
MainTsNodeElements(node, pos, isFirstNode) ==
  LET headerAndRest == MainTsSplitToHeaderAndRest(node, pos, isFirstNode)
      header == headerAndRest[1]
      rest == headerAndRest[2]
  IN (IF 0 < Len(header)
      THEN <<MainTsElement("IsHeader", undefined, undefined, undefined, undefined, "", header)>>
      ELSE <<>>)
     \o
     (IF 0 < Len(rest)
      THEN <<MainTsElement(undefined, getImportness(node), node.syntaxKind, getExportness(node),
                           getPersistance(node), MainTsGetName(node), rest)>>
      ELSE <<>>)

RECURSIVE MainTsElementsFrom(_, _, _)
MainTsElementsFrom(remaining, pos, isFirstNode) ==
  IF remaining = <<>> THEN <<>>
  ELSE MainTsNodeElements(Head(remaining), pos, isFirstNode)
       \o MainTsElementsFrom(Tail(remaining), pos + Len(getFullText(Head(remaining))), FALSE)

MainTsGetElements(sourceNodes) == MainTsElementsFrom(sourceNodes, 0, TRUE)

\* Array.prototype.sort with compareElements(element1, element2): isMultiline
\* has its default, true.
RECURSIVE MainTsInsertionPoint(_, _, _, _)
MainTsInsertionPoint(array, sorted, x, p) ==
  IF p = 0 THEN 0
  ELSE IF MainTsCompareElements(array[x], array[sorted[p]], TRUE) < 0
       THEN MainTsInsertionPoint(array, sorted, x, p - 1)
       ELSE p

RECURSIVE MainTsSortFrom(_, _, _)
MainTsSortFrom(array, sorted, x) ==
  IF x > Len(array) THEN sorted
  ELSE LET p == MainTsInsertionPoint(array, sorted, x, Len(sorted))
       IN MainTsSortFrom(array,
                         SubSeq(sorted, 1, p) \o <<x>> \o SubSeq(sorted, p + 1, Len(sorted)),
                         x + 1)

MainTsSort(array) == MainTsSortFrom(array, <<>>, 1)

RECURSIVE MainTsInsertionThrows(_, _, _, _)
MainTsInsertionThrows(array, sorted, x, p) ==
  IF p = 0 THEN FALSE
  ELSE \/ MainTsCompareElementsThrows(array[x], array[sorted[p]], TRUE)
       \/ /\ MainTsCompareElements(array[x], array[sorted[p]], TRUE) < 0
          /\ MainTsInsertionThrows(array, sorted, x, p - 1)

RECURSIVE MainTsSortThrowsFrom(_, _, _)
MainTsSortThrowsFrom(array, sorted, x) ==
  IF x > Len(array) THEN FALSE
  ELSE \/ MainTsInsertionThrows(array, sorted, x, Len(sorted))
       \/ LET p == MainTsInsertionPoint(array, sorted, x, Len(sorted))
          IN MainTsSortThrowsFrom(array,
                                  SubSeq(sorted, 1, p) \o <<x>> \o SubSeq(sorted, p + 1, Len(sorted)),
                                  x + 1)

MainTsSortThrows(array) == MainTsSortThrowsFrom(array, <<>>, 1)

\* The text main logs for a script: inputPath + " => " + outputPath.
LogLine(scriptFilename) == <<"in">> \o scriptFilename \o <<" => ", "out">> \o scriptFilename

\* main of src/main.ts reports an error without the help text.
MainTsReadConfiguration ==
  /\ pc = "main.ts:readConfiguration"
  /\ configuration.defined
  /\ comparisons' = MainTsReadConfigurationFrom(comparisons, configuration.comparisons)
  /\ pc' = "main.ts:scripts"
  /\ UNCHANGED <<environment, outputDirectory, console, scriptIndex, handleFileLocals>>

MainTsReadConfigurationFails ==
  /\ pc = "main.ts:readConfiguration"
  /\ ~configuration.defined
  /\ console' = Append(console,
                       ErrorMessage("property \"comparisons\" missing in configuration"))
  /\ pc' = "main.ts:error"
  /\ UNCHANGED <<environment, outputDirectory, scriptIndex, comparisons, handleFileLocals>>

\* The input path does not exist: main logs that and returns.
MainTsInputPathMissing ==
  /\ pc = "main.ts:scripts"
  /\ scriptIndex < Len(scripts)
  /\ ~existsSync(inputDirectory, scripts[scriptIndex + 1])
  /\ console' = Append(console, <<"input path \"in">> \o scripts[scriptIndex + 1]
                                 \o <<"\" done not exist">>)
  /\ pc' = "main.ts:done"
  /\ UNCHANGED <<environment, outputDirectory, scriptIndex, comparisons, handleFileLocals>>

\* The log line and the call of handleFile, whose project does not hold the
\* script.
MainTsSourceFileMissing ==
  /\ pc = "main.ts:scripts"
  /\ scriptIndex < Len(scripts)
  /\ existsSync(inputDirectory, scripts[scriptIndex + 1])
  /\ scripts[scriptIndex + 1] \notin project
  /\ console' = console \o <<LogLine(scripts[scriptIndex + 1]),
                             ErrorMessage("Cannot read properties of undefined")>>
  /\ pc' = "main.ts:error"
  /\ UNCHANGED <<environment, outputDirectory, scriptIndex, comparisons, handleFileLocals>>

\* The log line and the call of handleFile up to the source file it reads.
MainTsBeginScript ==
  /\ pc = "main.ts:scripts"
  /\ scriptIndex < Len(scripts)
  /\ existsSync(inputDirectory, scripts[scriptIndex + 1])
  /\ scripts[scriptIndex + 1] \in project
  /\ console' = Append(console, LogLine(scripts[scriptIndex + 1]))
  /\ nodes' = inputDirectory[scripts[scriptIndex + 1]][1]
  /\ pc' = "main.ts:getElements"
  /\ UNCHANGED <<environment, outputDirectory, scriptIndex, comparisons, presort, elements,
                 order, result, previousElement, previousIsMultiline, isFirstElement, index>>

MainTsGetElementsStep ==
  /\ pc = "main.ts:getElements"
  /\ elements' = MainTsGetElements(nodes)
  /\ presort' = elements'
  /\ pc' = "main.ts:sort"
  /\ UNCHANGED <<environment, outputDirectory, console, scriptIndex, comparisons,
                 nodes, order, result, previousElement, previousIsMultiline,
                 isFirstElement, index>>

MainTsSortElementsThrows ==
  /\ pc = "main.ts:sort"
  /\ MainTsSortThrows(elements)
  /\ console' = Append(console, ErrorMessage("Cannot read properties of undefined"))
  /\ pc' = "main.ts:error"
  /\ UNCHANGED <<environment, outputDirectory, scriptIndex, comparisons, handleFileLocals>>

MainTsSortElements ==
  /\ pc = "main.ts:sort"
  /\ ~MainTsSortThrows(elements)
  /\ order' = MainTsSort(elements)
  /\ elements' = Permute(elements, order')
  /\ result' = <<>>
  /\ previousElement' = <<>>
  /\ index' = 0
  /\ pc' = "main.ts:emit"
  /\ UNCHANGED <<environment, outputDirectory, console, scriptIndex, comparisons,
                 nodes, presort, previousIsMultiline, isFirstElement>>

\* previousElement.name.includes or the comparison with the previous element
\* throws in the loop over the sorted elements.
MainTsEmitThrows(element) ==
  /\ previousElement # <<>>
  /\ \/ previousElement[1].name = undefined
     \/ MainTsCompareElementsThrows(element, previousElement[1], isMultiline(element))

MainTsEmitElementThrows ==
  /\ pc = "main.ts:emit"
  /\ index < Len(elements)
  /\ MainTsEmitThrows(elements[index + 1])
  /\ console' = Append(console, ErrorMessage("Cannot read properties of undefined"))
  /\ pc' = "main.ts:error"
  /\ UNCHANGED <<environment, outputDirectory, scriptIndex, comparisons, handleFileLocals>>

\* One iteration of the loop over the sorted elements.
MainTsEmitElement ==
  /\ pc = "main.ts:emit"
  /\ index < Len(elements)
  /\ ~MainTsEmitThrows(elements[index + 1])
  /\ LET element == elements[index + 1]
     IN /\ result' =
             result
             \o (IF /\ previousElement # <<>>
                    /\ MainTsCompareElements(element, previousElement[1],
                                             isMultiline(element)) # 0
                 THEN <<NL>> ELSE <<>>)
             \o trim(element.text) \o <<NL>>
        /\ previousElement' = <<element>>
  /\ index' = index + 1
  /\ UNCHANGED <<environment, outputDirectory, console, scriptIndex, comparisons,
                 nodes, presort, elements, order, previousIsMultiline, isFirstElement, pc>>

\* handleFile returns its result and main writes it to the output path; no
\* copy of an existing output file is made.
MainTsReturnResult ==
  /\ pc = "main.ts:emit"
  /\ index = Len(elements)
  /\ outputDirectory' = writeFileSync(outputDirectory, scripts[scriptIndex + 1], result)
  /\ scriptIndex' = scriptIndex + 1
  /\ pc' = "main.ts:scripts"
  /\ UNCHANGED <<environment, console, comparisons, handleFileLocals>>

MainTsMainReturns ==
  /\ pc = "main.ts:scripts"
  /\ scriptIndex = Len(scripts)
  /\ pc' = "main.ts:done"
  /\ UNCHANGED <<environment, outputDirectory, console, scriptIndex, comparisons,
                 handleFileLocals>>

MainTsNext ==
  \/ MainTsReadConfiguration
  \/ MainTsReadConfigurationFails
  \/ MainTsInputPathMissing
  \/ MainTsSourceFileMissing
  \/ MainTsBeginScript
  \/ MainTsGetElementsStep
  \/ MainTsSortElementsThrows
  \/ MainTsSortElements
  \/ MainTsEmitElementThrows
  \/ MainTsEmitElement
  \/ MainTsReturnResult
  \/ MainTsMainReturns

\* Both variants of main.
NextOfBoth == Next \/ MainTsNext

(***************************************************************************)
(* Inputs: configurations and files.                                       *)
(***************************************************************************)
SeqsUpTo(S, n) == UNION {[1..k -> S] : k \in 0..n}

Entry(key, values, ignoreIfSingleLine) ==
  [key |-> key, values |-> values, ignoreIfSingleLine |-> ignoreIfSingleLine]

Configuration(entries) == [defined |-> TRUE, comparisons |-> entries]

\* A configuration without the "comparisons" property.
NoComparisons == [defined |-> FALSE, comparisons |-> <<>>]

Node(syntaxKind, exportKeyword, const, name, text) ==
  [syntaxKind |-> syntaxKind, typeKeyword |-> FALSE, exportKeyword |-> exportKeyword,
   declareKeyword |-> FALSE, const |-> const, name |-> name,
   lead |-> <<>>, comments |-> <<>>, text |-> text]

ImportFs == Node("ImportDeclaration", FALSE, FALSE, "fs", <<"import">>)

ConstOption == Node("VariableStatement", FALSE, TRUE, "option", <<"const", "option">>)

LetBeta == Node("VariableStatement", FALSE, FALSE, "beta", <<"let", "beta">>)

ExportedFunction ==
  Node("FunctionDeclaration", TRUE, FALSE, "f", <<"export", "function">>)

ClassC == Node("ClassDeclaration", FALSE, FALSE, "C", <<"class", "{", NL, "}">>)

OptionCall == Node("ExpressionStatement", FALSE, FALSE, "", <<"option", "();">>)

\* export default function () {}: a declaration without a name.
AnonymousFunction ==
  Node("FunctionDeclaration", TRUE, FALSE, undefined, <<"export", "default", "function">>)

\* declare function f(): void;
DeclaredFunction ==
  [Node("FunctionDeclaration", FALSE, FALSE, "f", <<"declare", "function">>)
     EXCEPT !.declareKeyword = TRUE]

\* The last child of every source file: the end-of-file token, whose text is
\* empty and whose leading trivia is what follows the last statement.
EndOfFileToken ==
  [Node("EndOfFileToken", FALSE, FALSE, "", <<>>) EXCEPT !.lead = <<NL>>]

\* source.forEachChildAsArray(): the statements, then the end-of-file token.
SourceFile(statements) == statements \o <<EndOfFileToken>>

Comment(text, gap) == [text |-> text, gap |-> gap]

WithComments(node, lead, comments) == [node EXCEPT !.lead = lead, !.comments = comments]

\* The first node of the end-to-end scenario: banner, blank line, import.
BannerImport == WithComments(ImportFs, <<>>, <<Comment(<<"//banner">>, 2)>>)

Declarations == {ConstOption, ExportedFunction, ClassC}

\* Files of up to MaxNodes statements; an import, if any, is the first.
Files ==
  {SourceFile(<<>>)} \cup
  {SourceFile(<<first>> \o others) :
     first \in Declarations \cup {ImportFs, BannerImport},
     others \in SeqsUpTo(Declarations, MaxNodes - 1)}

ScenarioKind == Entry(TraitKind, <<"Import", "Variable", "Function", null>>, <<>>)

ScenarioTransfer == Entry(TraitTransfer, <<"IsExported", null>>, <<>>)

ScenarioConfiguration == Configuration(<<ScenarioKind, ScenarioTransfer>>)

Entries ==
  { ScenarioKind,
    ScenarioTransfer,
    Entry(TraitKind, <<"Header", null, "Variable">>, <<TRUE>>),
    Entry(TraitPattern, <<"option", null>>, <<FALSE>>),
    Entry(TraitName, <<>>, <<TRUE>>) }

Configurations ==
  {NoComparisons} \cup {Configuration(entries) : entries \in SeqsUpTo(Entries, MaxEntries)}

\* Files for the header splitter: a first statement with every list of up to
\* MaxComments leading comments and gaps up to MaxGap, at most one more
\* statement, and files that end with comments or hold nothing but comments.
commentTexts == <<"//c1", "//c2", "//c3", "//c4">>

CommentLists ==
  UNION {{[i \in 1..k |-> Comment(<<commentTexts[i]>>, gaps[i])] :
            gaps \in [1..k -> 0..MaxGap]} : k \in 0..MaxComments}

\* The lists whose comments are all followed by the same gap.
EvenCommentLists ==
  {[i \in 1..k |-> Comment(<<commentTexts[i]>>, gap)] :
     k \in 0..MaxComments, gap \in 0..MaxGap}

Shebang == <<"#!", NL>>

SplitFiles ==
  LET firsts == {WithComments(node, lead, comments) :
                   node \in {ImportFs}, lead \in {<<>>, <<NL>>, Shebang},
                   comments \in CommentLists}
      seconds == {WithComments(ExportedFunction, <<NL>>, comments) :
                    comments \in EvenCommentLists}
      commentsOnly == {WithComments(EndOfFileToken, lead, comments) :
                         lead \in {<<>>, <<NL>>}, comments \in CommentLists}
  IN {SourceFile(<<first>>) : first \in firsts}
     \cup {SourceFile(<<first, second>>) : first \in firsts, second \in seconds}
     \cup {<<last>> : last \in commentsOnly}
     \cup {<<ImportFs, last>> : last \in commentsOnly}

SplitConfigurations ==
  {Configuration(<<>>), Configuration(<<Entry(TraitKind, <<"Header", null>>, <<>>)>>)}

\* Configurations for the rank tables: one entry with every value list of up
\* to MaxValues values.  "IsExport" is the name the README table gives; it is
\* no member of Transfer.  "declaration" is the key configuration.txt gives
\* for the trait whose key in enum Trait is "declare".
RankEntries ==
  {Entry(TraitKind, values, <<>>) :
     values \in SeqsUpTo({"Import", "Variable", null}, MaxValues)}
  \cup {Entry(TraitTransfer, values, <<>>) :
          values \in SeqsUpTo({"IsExported", "IsExport", null}, MaxValues)}
  \cup {Entry(TraitPattern, values, <<>>) :
          values \in SeqsUpTo({"const", "option", null}, MaxValues)}
  \cup {Entry(key, <<"IsDeclared", null>>, <<>>) : key \in {"declaration", "declare"}}

RankConfigurations == {Configuration(<<entry>>) : entry \in RankEntries}

\* Configurations for the conversion of the configured names: "Export" and
\* "IsExport" name no member, "7" and "0" are the numbers of Import and of
\* IsExported, "toString" is inherited by every enum object.
ValueEntries ==
  {Entry(TraitKind, values, <<>>) :
     values \in SeqsUpTo({"Import", "Export", "7", null}, MaxValues)}
  \cup {Entry(TraitTransfer, values, <<>>) :
          values \in SeqsUpTo({"IsExported", "IsExport", "0", "toString", null}, MaxValues)}

ValueConfigurations == {Configuration(<<entry>>) : entry \in ValueEntries}

ValueNodes == {ImportFs, LetBeta, ExportedFunction}

ValueFiles ==
  {SourceFile(<<first>> \o others) : first \in ValueNodes, others \in SeqsUpTo(ValueNodes, 1)}

RankNodes == {ImportFs, ConstOption, LetBeta, ExportedFunction, OptionCall, DeclaredFunction}

RankFiles ==
  {SourceFile(<<first>> \o others) : first \in RankNodes, others \in SeqsUpTo(RankNodes, 1)}

\* The scripts of the command line and the directories.
ScriptA == <<"a.ts">>

ScriptB == <<"b.ts">>

ScriptNames == {ScriptA, ScriptB}

OutputNames == ScriptNames \cup {Backup(name) : name \in ScriptNames}

NoFiles(names) == [name \in names |-> <<>>]

\* An input directory whose only script is a.ts.
OneScript(file) == [name \in ScriptNames |-> IF name = ScriptA THEN <<file>> ELSE <<>>]

\* main has parsed its options and found the directories and the
\* configuration file; nothing is read or written yet.
StartOfMain ==
  /\ console = <<>>
  /\ scriptIndex = 0
  /\ comparisons = <<>>
  /\ nodes = <<>>
  /\ presort = <<>>
  /\ elements = <<>>
  /\ order = <<>>
  /\ result = <<>>
  /\ previousElement = <<>>
  /\ previousIsMultiline = FALSE
  /\ isFirstElement = TRUE
  /\ index = 0
  /\ pc = "readConfiguration"

\* Files with a declaration that has no name.
AnonymousFiles ==
  {SourceFile(<<LetBeta, AnonymousFunction>>), SourceFile(<<AnonymousFunction, LetBeta>>)}

\* One script a.ts and an empty output directory: every configuration with
\* every file, the runs whose script is missing or outside the project, and the runs
\* whose script has a declaration without a name.
InitRuns(configurations, files, runtimes) ==
  /\ StartOfMain
  /\ intl \in runtimes
  /\ scripts = <<ScriptA>>
  /\ outputDirectory = NoFiles(OutputNames)
  /\ \/ /\ configuration \in configurations
        /\ inputDirectory \in {OneScript(file) : file \in files}
        /\ project = {ScriptA}
     \/ /\ configuration = Configuration(<<>>)
        /\ inputDirectory = NoFiles(ScriptNames)
        /\ project = {}
     \/ /\ configuration = Configuration(<<>>)
        /\ inputDirectory = OneScript(SourceFile(<<ImportFs>>))
        /\ project = {}
     \/ /\ configuration = Configuration(<<Entry(TraitName, <<>>, <<>>)>>)
        /\ inputDirectory \in {OneScript(file) : file \in AnonymousFiles}
        /\ project = {ScriptA}

InitWith(configurations, files) == InitRuns(configurations, files, {TRUE})

Init == InitWith(Configurations, Files)

Spec == Init /\ [][Next]_vars

InitSplit == InitWith(SplitConfigurations \cup {NoComparisons}, SplitFiles)

SpecSplit == InitSplit /\ [][Next]_vars

InitRank == InitWith(RankConfigurations \cup {NoComparisons}, RankFiles)

SpecRank == InitRank /\ [][Next]_vars

InitValues == InitWith(ValueConfigurations \cup {NoComparisons}, ValueFiles)

SpecValues == InitValues /\ [][Next]_vars

\* main with up to MaxScripts scripts: output files and backups of earlier
\* runs, scripts the input directory lacks, a script outside the project,
\* scripts with a declaration without a name, and the three configurations.
OldText == <<"old", NL>>

OlderText == <<"older", NL>>

MainConfigurations ==
  {NoComparisons, ScenarioConfiguration, Configuration(<<Entry(TraitName, <<>>, <<>>)>>)}

MainInputDirectories ==
  {[name \in ScriptNames |-> IF name = ScriptA THEN a ELSE b] :
     a \in {<<>>, <<SourceFile(<<ConstOption, ImportFs>>)>>,
            <<SourceFile(<<LetBeta, AnonymousFunction>>)>>},
     b \in {<<>>, <<SourceFile(<<AnonymousFunction, LetBeta>>)>>}}

MainOutputDirectories ==
  {[name \in OutputNames |->
      CASE name = ScriptA -> a
        [] name = ScriptB -> b
        [] name = Backup(ScriptA) -> backup
        [] OTHER -> <<>>] :
     a \in {<<>>, <<OldText>>}, b \in {<<>>, <<OldText>>},
     backup \in {<<>>, <<OlderText>>}}

InitMain ==
  /\ StartOfMain
  /\ intl = TRUE
  /\ configuration \in MainConfigurations
  /\ scripts \in SeqsUpTo(ScriptNames, MaxScripts) \ {<<>>}
  /\ inputDirectory \in MainInputDirectories
  /\ project \in {ScriptNames, {ScriptB}}
  /\ outputDirectory \in MainOutputDirectories

SpecMain == InitMain /\ [][Next]_vars

\* The same runs of main of src/main.ts, with configurations of its traits.
MainTsEntry(key, values, ignoreWhenSingleLine) ==
  [key |-> key, values |-> values, ignoreWhenSingleLine |-> ignoreWhenSingleLine]

MainTsConfigurations ==
  {NoComparisons,
   Configuration(<<MainTsEntry(comparatorNameImportness, <<"IsImport", null>>, <<>>),
                   MainTsEntry(comparatorNameKind,
                               <<"VariableStatement", "FunctionDeclaration", null>>, <<>>)>>),
   Configuration(<<MainTsEntry(comparatorNameName, <<>>, <<>>)>>)}

InitMainTs ==
  /\ console = <<>>
  /\ scriptIndex = 0
  /\ comparisons = <<>>
  /\ nodes = <<>>
  /\ presort = <<>>
  /\ elements = <<>>
  /\ order = <<>>
  /\ result = <<>>
  /\ previousElement = <<>>
  /\ previousIsMultiline = FALSE
  /\ isFirstElement = TRUE
  /\ index = 0
  /\ pc = "main.ts:readConfiguration"
  /\ intl = TRUE
  /\ configuration \in MainTsConfigurations
  /\ scripts \in SeqsUpTo(ScriptNames, MaxScripts) \ {<<>>}
  /\ inputDirectory \in MainInputDirectories
  /\ project \in {ScriptNames, {ScriptB}}
  /\ outputDirectory \in MainOutputDirectories

InitOfBoth == InitMain \/ InitMainTs

\* handleFile of src/main.ts: one script a.ts with up to MaxNodes - 1
\* statements under every configuration of up to MaxEntries of these entries,
\* and the runs that fail.
MainTsEntries ==
  {MainTsEntry(comparatorNameImportness, <<"IsImport", null>>, <<>>),
   MainTsEntry(comparatorNameKind, <<"ClassDeclaration", null, "VariableStatement">>, <<TRUE>>),
   MainTsEntry(comparatorNameRegularExpression, <<null, "const">>, <<>>),
   MainTsEntry(comparatorNamePersistance, <<"IsConstant", null>>, <<FALSE>>),
   MainTsEntry(comparatorNameName, <<>>, <<TRUE>>)}

MainTsFiles ==
  {SourceFile(<<first>> \o others) :
     first \in {ImportFs, ConstOption, LetBeta, ClassC},
     others \in SeqsUpTo({ImportFs, ConstOption, LetBeta, ClassC}, MaxNodes - 2)}

InitMainTsFiles ==
  /\ console = <<>>
  /\ scriptIndex = 0
  /\ comparisons = <<>>
  /\ nodes = <<>>
  /\ presort = <<>>
  /\ elements = <<>>
  /\ order = <<>>
  /\ result = <<>>
  /\ previousElement = <<>>
  /\ previousIsMultiline = FALSE
  /\ isFirstElement = TRUE
  /\ index = 0
  /\ pc = "main.ts:readConfiguration"
  /\ intl = TRUE
  /\ scripts = <<ScriptA>>
  /\ outputDirectory = NoFiles(OutputNames)
  /\ \/ /\ configuration \in {Configuration(entries) :
                                 entries \in SeqsUpTo(MainTsEntries, MaxEntries)}
                              \cup {NoComparisons}
        /\ inputDirectory \in {OneScript(file) : file \in MainTsFiles}
        /\ project = {ScriptA}
     \/ /\ configuration = Configuration(<<>>)
        /\ inputDirectory \in {NoFiles(ScriptNames), OneScript(SourceFile(<<ImportFs>>))}
        /\ project = {}
     \/ /\ configuration = Configuration(<<MainTsEntry(comparatorNameName, <<>>, <<>>)>>)
        /\ inputDirectory \in {OneScript(file) : file \in AnonymousFiles}
        /\ project = {ScriptA}

SpecMainTs == InitMainTsFiles /\ [][MainTsNext]_vars

SpecOfBoth == InitOfBoth /\ [][NextOfBoth]_vars

\* Configurations for the building of the chain: up to MaxEntries entries with
\* the keys of enum Trait, the key "declaration" of configuration.txt and
\* keys readConfiguration does not know, each without and with the property
\* ignoreIfSingleLine.
BuildEntries ==
  {Entry(key, <<null>>, flag) :
     key \in {TraitKind, TraitTransfer, TraitPersistance, TraitDeclaration, TraitPattern,
              TraitName, "declaration", "exportness"},
     flag \in {<<>>, <<TRUE>>, <<FALSE>>}}

BuildConfigurations ==
  {Configuration(entries) : entries \in SeqsUpTo(BuildEntries, MaxEntries)}

InitBuild ==
  InitWith(BuildConfigurations \cup {NoComparisons}, {SourceFile(<<ConstOption, ImportFs>>)})

SpecBuild == InitBuild /\ [][Next]_vars

\* The chain on both runtimes: every configuration of Configurations with the
\* files of one or two nodes of RankNodes.
InitChain == InitRuns(Configurations, RankFiles, BOOLEAN)

SpecChain == InitChain /\ [][Next]_vars

(***************************************************************************)
(* Vocabulary of the properties.                                           *)
(***************************************************************************)
Emitted == SubSeq(elements, 1, index)

HandleFileDone == pc = "done"

Sorted == pc \in {"emit", "done"}

ElementsKnown == pc \in {"sort", "emit", "done"}

KindsOf(sequence) == [i \in 1..Len(sequence) |-> sequence[i].kind]

\* A text that spans more than one line.
SpansLines(text) == \E i \in 1..Len(text) : text[i] = NL

RECURSIVE CountNewlinesAt(_, _)
CountNewlinesAt(text, p) ==
  IF p <= Len(text) /\ text[p] = NL THEN 1 + CountNewlinesAt(text, p + 1) ELSE 0

\* The output read back: the number of blank lines in front of each emitted
\* element, -1 from the first element on whose text is not found in its place.
RECURSIVE BlankLinesFrom(_, _, _, _)
BlankLinesFrom(output, emitted, k, p) ==
  IF k > Len(emitted) THEN <<>>
  ELSE LET blank == CountNewlinesAt(output, p)
           text == emitted[k].text
           found == SubSeq(output, p + blank, p + blank + Len(text)) = text \o <<NL>>
       IN IF found
          THEN <<blank>> \o BlankLinesFrom(output, emitted, k + 1, p + blank + Len(text) + 1)
          ELSE [i \in 1..(Len(emitted) - k + 1) |-> -1]

BlankLines == BlankLinesFrom(result, Emitted, 1, 1)

\* The chain without the comparators marked ignoreIfSingleLine.
NotIgnored(comparator) == ~comparator.ignoreIfSingleLine

RestrictedChain == SelectSeq(comparisons, NotIgnored)

RestrictedCompare(element1, element2) ==
  compareFrom(RestrictedChain, 1, element1, element2, FALSE)

FullCompare(element1, element2) == compareFrom(comparisons, 1, element1, element2, FALSE)

(***************************************************************************)
(* C1  End-to-end scenario (banner + blank line + import first, an         *)
(* unexported const option variable, an exported function; chain kind      *)
(* [Import, Variable, Function, null], transfer [IsExported, null]).       *)
(***************************************************************************)
ScenarioRun ==
  /\ configuration = ScenarioConfiguration
  /\ Len(nodes) = 4
  /\ nodes[1] = BannerImport
  /\ {nodes[2], nodes[3]} = {ConstOption, ExportedFunction}
  /\ nodes[4] = EndOfFileToken

\* C1 as claimed: the output lists Header, Import, Variable, Function, with a
\* blank line between the Header and the Import.
C1_HeaderFirst ==
  (HandleFileDone /\ ScenarioRun) =>
     /\ KindsOf(elements) = <<"Header", "Import", "Variable", "Function">>
     /\ BlankLines[2] = 1

\* C1 amended: the Header's kind is not in the configured kind list, so the
\* Header ranks last: the output lists Import, Variable, Function, Header,
\* with one blank line between every two neighbours.
C1_HeaderLast ==
  (HandleFileDone /\ ScenarioRun) =>
     /\ KindsOf(elements) = <<"Import", "Variable", "Function", "Header">>
     /\ result = <<"import", NL, NL, "const", "option", NL, NL,
                   "export", "function", NL, NL, "//banner", NL>>

C1_Witness ==
  /\ HandleFileDone
  /\ ScenarioRun
  /\ Len(presort) = 4
  /\ presort[1].kind = "Header"
  /\ index = 4

(***************************************************************************)
(* C3  Stability: two elements the full chain compares as 0 keep, in the   *)
(* sorted sequence, the relative order they had before the sort.           *)
(***************************************************************************)
C3_Stable ==
  Sorted =>
    \A i \in 1..Len(order) : \A j \in (i + 1)..Len(order) :
       FullCompare(presort[order[i]], presort[order[j]]) = 0 => order[i] < order[j]

C3_Witness ==
  /\ Sorted
  /\ \E i \in 1..Len(order) : \E j \in (i + 1)..Len(order) :
        /\ FullCompare(presort[order[i]], presort[order[j]]) = 0
        /\ presort[order[i]] # presort[order[j]]
        /\ order[i] < order[j]
  /\ elements # presort

C5_OrderObeysPolicy ==
  Sorted =>
    /\ LET blankLines == BlankLines
       IN \A k \in 1..index : blankLines[k] >= 0
    /\ \A i \in 1..index : \A j \in (i + 1)..index :
          FullCompare(elements[i], elements[j]) <= 0

C5_Witness ==
  /\ HandleFileDone
  /\ elements # presort
  /\ \E i \in 1..index : \E j \in (i + 1)..index :
        FullCompare(elements[i], elements[j]) < 0

(***************************************************************************)
(* C6  Two neighbours of the output of which at least one spans more than  *)
(* one line have exactly one blank line between them, whatever the chain   *)
(* says about the pair.                                                    *)
(***************************************************************************)
C6_MultilineBlankLine ==
  Sorted =>
    LET blankLines == BlankLines
    IN \A k \in 2..index :
          (SpansLines(elements[k - 1].text) \/ SpansLines(elements[k].text))
             => blankLines[k] = 1

C6_Witness ==
  /\ HandleFileDone
  /\ \E k \in 2..index :
        /\ SpansLines(elements[k].text)
        /\ ~SpansLines(elements[k - 1].text)
        /\ FullCompare(elements[k], elements[k - 1]) = 0
        /\ BlankLines[k] = 1

(***************************************************************************)
(* C7  Two single-line neighbours of the output have no blank line between *)
(* them exactly when the chain without the comparators marked              *)
(* ignoreIfSingleLine compares them as 0 (else they have one).             *)
(***************************************************************************)
C7_SingleLineBlankLine ==
  Sorted =>
    LET blankLines == BlankLines
    IN \A k \in 2..index :
          (~SpansLines(elements[k - 1].text) /\ ~SpansLines(elements[k].text))
             => /\ blankLines[k] \in {0, 1}
                /\ blankLines[k] = 0
                     <=> RestrictedCompare(elements[k], elements[k - 1]) = 0

C7_Witness ==
  /\ HandleFileDone
  /\ \E k \in 2..index :
        /\ ~SpansLines(elements[k - 1].text)
        /\ ~SpansLines(elements[k].text)
        /\ RestrictedCompare(elements[k], elements[k - 1]) = 0
        /\ FullCompare(elements[k], elements[k - 1]) # 0
        /\ BlankLines[k] = 0

(***************************************************************************)
(* C8  Header extraction from the first node of the file (preceded by      *)
(* comments only): when a gap of more than one character follows one of    *)
(* its leading comments, the comments up to the first gap are the text of  *)
(* a Header element and the remaining comments followed by the declaration *)
(* are the text of the content element; when no gap follows any of its     *)
(* leading comments there is no Header element.                            *)
(***************************************************************************)
Min(S) == CHOOSE x \in S : \A y \in S : x <= y

Max(S) == CHOOSE x \in S : \A y \in S : x >= y

RECURSIVE JoinLines(_)
JoinLines(texts) ==
  IF texts = <<>> THEN <<>>
  ELSE IF Len(texts) = 1 THEN texts[1]
  ELSE texts[1] \o <<NL>> \o JoinLines(Tail(texts))

CommentTexts(node, from, to) ==
  [i \in 1..(to - from + 1) |-> node.comments[from + i - 1].text]

GapPositions(node) == {k \in 1..Len(node.comments) : node.comments[k].gap > 1}

PrecededByCommentsOnly(node) ==
  /\ Len(node.comments) >= 1
  /\ trim(node.lead) = <<>>
  /\ getText(node) # <<>>

\* The nodes whose full text is more than white space.
NodesWithText(sourceNodes) ==
  {j \in 1..Len(sourceNodes) : trim(getFullText(sourceNodes[j])) # <<>>}

C9_OnlyFirstNodeSplit ==
  (ElementsKnown /\ Len(nodes) >= 2) =>
     LET later == NodesWithText(nodes) \ {1}
         fromFirst == Len(presort) - Cardinality(later)
     IN /\ fromFirst \in {0, 1, 2}
        /\ \A j \in later :
              LET element == presort[fromFirst + Cardinality({k \in later : k <= j})]
              IN /\ element.kind = getKind(nodes[j])
                 /\ element.kind # "Header"
                 /\ element.text = trim(getFullText(nodes[j]))
                 /\ \A c \in 1..Len(nodes[j].comments) :
                       includes(element.text, nodes[j].comments[c].text[1])
        /\ \A j \in 2..Len(nodes) : \A pos \in 0..3 :
              splitToHeaderAndRest(nodes[j], pos, FALSE)
                = <<(<<>>), trim(getFullText(nodes[j]))>>

C9_Witness ==
  /\ pc = "sort"
  /\ Len(nodes) = 3
  /\ Len(nodes[2].comments) = 2
  /\ nodes[2].comments[1].gap = 2
  /\ nodes[2].comments[2].gap = 2
  /\ presort[Len(presort)].kind = "Function"
  /\ presort[Len(presort)].text =
       <<"//c1", NL, NL, "//c2", NL, NL, "export", "function">>

(***************************************************************************)
(* C2  Rank of an element under a trait comparator (kind, transfer,        *)
(* persistance, declaration) built from one configured value list.         *)
(***************************************************************************)
RankEntry == configuration.comparisons[1]

RankComparator == comparisons[1]

TraitRun ==
  /\ ElementsKnown
  /\ Len(comparisons) = 1
  /\ RankComparator.sortOrder.class = "TraitSortOrder"

EnumerationOf(key) ==
  CASE key = TraitKind -> Kind
    [] key = TraitTransfer -> Transfer
    [] key = TraitDeclaration -> Declaration
    [] OTHER -> Persistance

TraitValue(element) == traitAccessor(RankEntry.key, element)

Listed(value) == \E j \in 1..Len(RankEntry.values) : RankEntry.values[j] = value

NullPositions == {j \in 1..Len(RankEntry.values) : RankEntry.values[j] = null}

\* The entries that are null or name no member of the trait's enumeration.
NoMemberPositions ==
  {j \in 1..Len(RankEntry.values) : RankEntry.values[j] \notin EnumerationOf(RankEntry.key)}

MemberOrUndefined(value) ==
  IF value \in EnumerationOf(RankEntry.key) THEN value ELSE undefined

RankOf(element) == getRank(RankComparator.sortOrder, element)

PatternRun ==
  /\ ElementsKnown
  /\ Len(comparisons) = 1
  /\ RankComparator.sortOrder.class = "PatternSortOrder"

MatchingPositions(element) ==
  {j \in 1..Len(RankEntry.values) :
     RankEntry.values[j] # null /\ includes(element.text, RankEntry.values[j])}

C10_FirstMatchingPosition ==
  PatternRun =>
    \A i \in 1..Len(presort) :
       MatchingPositions(presort[i]) # {} =>
          RankOf(presort[i]) = Min(MatchingPositions(presort[i])) - 1

(***************************************************************************)
(* C11  Pattern wildcard: an element whose text matches none of the        *)
(* configured patterns takes the rank of the null entry of the list when   *)
(* the list has one (wherever it stands) and the maximum rank otherwise;   *)
(* an element that matches some pattern never gets the null entry's rank.  *)
(***************************************************************************)
NullEntryRank == MapGet(RankComparator.sortOrder.map, matchAllRegex)

C11_PatternWildcard ==
  PatternRun =>
    \A i \in 1..Len(presort) :
       LET rank == RankOf(presort[i])
       IN IF MatchingPositions(presort[i]) = {}
          THEN IF NullPositions # {}
               THEN rank = NullEntryRank /\ \E j \in NullPositions : rank = j - 1
               ELSE rank = MAX_SAFE_INTEGER
          ELSE NullPositions # {} => rank # NullEntryRank

(***************************************************************************)
(* C12  Chain evaluation: compareElements(a, b, restricted) returns the    *)
(* result of the first comparator, in configuration order and not skipped  *)
(* (skipped: restricted is set and the comparator is marked                *)
(* ignoreIfSingleLine), whose result is nonzero, and 0 exactly when every  *)
(* comparator that is not skipped returns 0.                               *)
(***************************************************************************)
ChainRun == ElementsKnown /\ configuration.defined

NotSkipped(restricted) ==
  {k \in 1..Len(comparisons) : ~(restricted /\ comparisons[k].ignoreIfSingleLine)}

ComparatorResult(k, a, b) == compare(comparisons[k].sortOrder, a, b)

Deciding(restricted, a, b) ==
  {k \in NotSkipped(restricted) : ComparatorResult(k, a, b) # 0}

FirstNonzero(restricted, a, b) ==
  LET deciding == Deciding(restricted, a, b)
      comparison == compareElements(a, b, restricted)
  IN /\ deciding # {} => comparison = ComparatorResult(Min(deciding), a, b)
     /\ comparison = 0 <=> deciding = {}

IsPermutation(permutation, n) ==
  /\ Len(permutation) = n
  /\ \A k \in 1..n : \E i \in 1..n : permutation[i] = k

\* The output text built from the emitted elements and the number of blank
\* lines in front of each.
RECURSIVE Serialized(_, _, _)
Serialized(emitted, blankLines, k) ==
  IF k > Len(emitted) THEN <<>>
  ELSE Newlines(blankLines[k]) \o trim(emitted[k].text) \o <<NL>>
       \o Serialized(emitted, blankLines, k + 1)

C13_OnlyReorders ==
  Sorted =>
    /\ IsPermutation(order, Len(presort))
    /\ elements = [i \in 1..Len(presort) |-> presort[order[i]]]
    /\ presort = getElements(nodes)
    /\ LET blankLines == BlankLines
       IN /\ \A k \in 1..index : blankLines[k] \in {0, 1}
          /\ index >= 1 => blankLines[1] = 0
          /\ result = Serialized(Emitted, blankLines, 1)
    /\ HandleFileDone => index = Len(presort)

C13_Witness ==
  /\ HandleFileDone
  /\ Len(presort) = 3
  /\ elements # presort
  /\ BlankLines = <<0, 1, 0>>
  /\ result = Serialized(elements, <<0, 1, 0>>, 1)

(***************************************************************************)
(* C14  Element production: every element getElements produces has a       *)
(* non-empty text, and every node of the source file yields exactly one    *)
(* element, or exactly two (a Header element followed by a content         *)
(* element) when it has a detachable header; no node yields none.          *)
(***************************************************************************)
RECURSIVE NodePos(_, _)
NodePos(sourceNodes, j) ==
  IF j <= 1 THEN 0
  ELSE NodePos(sourceNodes, j - 1) + Len(getFullText(sourceNodes[j - 1]))

\* The elements node j of the source file yields.
Yield(j) == NodeElements(nodes[j], NodePos(nodes, j), j = 1)

RECURSIVE YieldsFrom(_)
YieldsFrom(j) == IF j > Len(nodes) THEN <<>> ELSE Yield(j) \o YieldsFrom(j + 1)

HeaderThenContent(j) ==
  /\ Yield(j)[1].kind = "Header"
  /\ Yield(j)[2].kind = getKind(nodes[j])
  /\ Yield(j)[2].kind # "Header"

\* C14 as claimed.
C14_OneOrTwoElements ==
  ElementsKnown =>
    /\ presort = YieldsFrom(1)
    /\ \A i \in 1..Len(presort) : presort[i].text # <<>>
    /\ \A j \in 1..Len(nodes) :
          /\ Len(Yield(j)) \in {1, 2}
          /\ Len(Yield(j)) = 2 => HeaderThenContent(j)

\* C14 amended: a node whose full text is nothing but white space (the
\* end-of-file token with no comment in front of it) yields no element; every
\* other node yields one element, or two (a Header element followed by a
\* content element) when it is the first node and has a detachable header
\* and a rest; every element's text is non-empty.
C14_AtMostTwoElements ==
  ElementsKnown =>
    /\ presort = YieldsFrom(1)
    /\ \A i \in 1..Len(presort) : presort[i].text # <<>>
    /\ \A j \in 1..Len(nodes) :
          /\ Len(Yield(j)) \in {0, 1, 2}
          /\ Len(Yield(j)) = 0 <=> trim(getFullText(nodes[j])) = <<>>
          /\ Len(Yield(j)) = 2 => (j = 1 /\ HeaderThenContent(j))
          /\ getText(nodes[j]) # <<>> =>
                Yield(j)[Len(Yield(j))].kind = getKind(nodes[j])

C14_Witness ==
  /\ pc = "sort"
  /\ Len(nodes) = 2
  /\ nodes[2] = EndOfFileToken
  /\ Len(Yield(1)) = 2
  /\ Len(Yield(2)) = 0
  /\ Len(presort) = 2
  /\ presort[1].kind = "Header"
  /\ presort[2].kind = "Import"

(***************************************************************************)
(* C15  Rank table: after a TraitSortOrder or PatternSortOrder is built    *)
(* from a configured value list, the rank of each configured entry equals  *)
(* its position in the list, so the ranks are the distinct, dense integers *)
(* 0..n-1, also when the list repeats a value or holds null more than      *)
(* once.                                                                   *)
(***************************************************************************)
RankTableRun == TraitRun \/ PatternRun

\* The key under which entry j of the configured list is stored.
EntryKey(j) ==
  IF RankComparator.sortOrder.class = "PatternSortOrder"
  THEN IF RankEntry.values[j] = null THEN matchAllRegex
       ELSE RegExp(RankEntry.values[j], j)
  ELSE MemberOrUndefined(RankEntry.values[j])

EntryRank(j) == MapGet(RankComparator.sortOrder.map, EntryKey(j))

C15_RankIsPosition ==
  RankTableRun =>
    /\ \A j \in 1..Len(RankEntry.values) :
          /\ MapHas(RankComparator.sortOrder.map, EntryKey(j))
          /\ EntryRank(j) = j - 1
    /\ {RankComparator.sortOrder.map[m].rank : m \in 1..Len(RankComparator.sortOrder.map)}
         = 0..(Len(RankEntry.values) - 1)

(***************************************************************************)
(* C16  The declaration trait key: a configuration entry whose key is      *)
(* "declaration", with the values "IsDeclared" and null, makes             *)
(* readConfiguration add to the chain a comparator that ranks the elements *)
(* by whether they are ambient-declared.                                   *)
(***************************************************************************)
DeclarationRun ==
  /\ ElementsKnown
  /\ Len(configuration.comparisons) = 1
  /\ RankEntry = Entry("declaration", <<"IsDeclared", null>>, <<>>)

C16_DeclarationKeyRecognized ==
  DeclarationRun =>
    /\ Len(comparisons) = 1
    /\ RankComparator.sortOrder.class = "TraitSortOrder"
    /\ \A i \in 1..Len(presort) :
          RankOf(presort[i]) = IF presort[i].declaration = "IsDeclared" THEN 0 ELSE 1

(***************************************************************************)
(* C17  A configuration without the "comparisons" property is fatal before *)
(* any file is processed: the only step of such a run reports the error as *)
(* a message and ends the run; no step of it changes the output directory  *)
(* (no output file is written, no backup is created) or starts a script.   *)
(***************************************************************************)
C17_MissingComparisonsFatal ==
  [][~configuration.defined =>
       /\ pc = "readConfiguration"
       /\ pc' = "error"
       /\ console' = <<ErrorMessage("property 'comparisons' missing in configuration"), help>>
       /\ outputDirectory' = outputDirectory
       /\ scriptIndex' = 0
       /\ nodes' = <<>>]_vars

\* The run has ended with the message; its first script exists and has an
\* output file of an earlier run, which is still there without a backup.
C17_Witness ==
  /\ ~configuration.defined
  /\ pc = "error"
  /\ console = <<ErrorMessage("property 'comparisons' missing in configuration"), help>>
  /\ existsSync(inputDirectory, scripts[1])
  /\ outputDirectory[scripts[1]] = <<OldText>>
  /\ ~existsSync(outputDirectory, Backup(scripts[1]))

(***************************************************************************)
(* C18  An output path changes only in the step that ends handleFile: the  *)
(* loop over the sorted elements is finished, every element of the script  *)
(* is in the text, and that text is what the path of the script receives.  *)
(* A step that fails a script leaves every output path as it was.          *)
(***************************************************************************)
TextComplete ==
  /\ pc = "emit"
  /\ index = Len(elements)
  /\ Len(elements) = Len(getElements(nodes))
  /\ \A k \in 1..Len(elements) : BlankLinesFrom(result, elements, 1, 1)[k] >= 0

C18_WrittenWhenComplete ==
  [][\A name \in ScriptNames :
       outputDirectory'[name] # outputDirectory[name] =>
         /\ TextComplete
         /\ name = scripts[scriptIndex + 1]
         /\ nodes = inputDirectory[name][1]
         /\ outputDirectory'[name] = <<result>>]_vars

\* handleFile has failed with a part of the text built; the output path still
\* holds the text of the earlier run.
C18_Witness ==
  /\ pc = "error"
  /\ result # <<>>
  /\ index < Len(elements)
  /\ outputDirectory[scripts[scriptIndex + 1]] = <<OldText>>

(***************************************************************************)
(* C19  Backup before overwrite: when main is about to write the output    *)
(* path of a script and that path exists, the path with ".backup" appended *)
(* holds a copy of the content the output path has.                        *)
(***************************************************************************)
AboutToWrite == pc \in {"emit", "main.ts:emit"} /\ index = Len(elements)

C19_BackupBeforeOverwrite ==
  AboutToWrite /\ existsSync(outputDirectory, scripts[scriptIndex + 1]) =>
    outputDirectory[Backup(scripts[scriptIndex + 1])] = outputDirectory[scripts[scriptIndex + 1]]

(***************************************************************************)
(* C20  Missing input path: when main reaches a script the input directory *)
(* does not hold, its step reports that on the console and ends the run;   *)
(* it leaves the output directory as it is (nothing is written or copied   *)
(* for the script, the output files of the earlier scripts stay), and no   *)
(* step follows the end of the run, so no later script is processed.       *)
(***************************************************************************)
InputMissing ==
  /\ pc \in {"scripts", "main.ts:scripts"}
  /\ scriptIndex < Len(scripts)
  /\ ~existsSync(inputDirectory, scripts[scriptIndex + 1])

RunEnded == pc \in {"error", "done", "main.ts:error", "main.ts:done"}

C20_MissingInputPath ==
  [][/\ InputMissing =>
          /\ outputDirectory' = outputDirectory
          /\ scriptIndex' = scriptIndex
          /\ IF pc = "scripts"
             THEN /\ console' = console \o <<ErrorMessage("could not find input-path"), help>>
                  /\ pc' = "error"
             ELSE /\ console' = Append(console, <<"input path \"in">> \o scripts[scriptIndex + 1]
                                                \o <<"\" done not exist">>)
                  /\ pc' = "main.ts:done"
     /\ ~RunEnded]_vars

\* The run has ended at its second script, which the input directory lacks:
\* the output of the first script is written, and the third script, which
\* exists, has not been started.
C20_Witness ==
  /\ RunEnded
  /\ Len(scripts) = 3
  /\ scriptIndex = 1
  /\ ~existsSync(inputDirectory, scripts[2])
  /\ ~existsSync(outputDirectory, scripts[2])
  /\ ~existsSync(outputDirectory, Backup(scripts[2]))
  /\ existsSync(inputDirectory, scripts[3])
  /\ outputDirectory[scripts[1]] = <<result>>
  /\ result # OldText
  /\ Len(console) >= 2

(***************************************************************************)
(* C21  Gap index: for a first node with at least one leading comment,     *)
(* getCommentGapIndex returns i + 1 for the smallest i (0-based) such that *)
(* more than one character lies between the end of comment i and the start *)
(* of comment i + 1 (the start of the node for the last comment), and 0    *)
(* when there is no such i; the comments with an index below the gap index *)
(* are in the header and not in the rest, every other comment and the text *)
(* of the node are in the rest and not in the header.                      *)
(***************************************************************************)
FirstNodeWithComments == ElementsKnown /\ nodes # <<>> /\ Len(nodes[1].comments) >= 1

C21_GapIndex ==
  FirstNodeWithComments =>
    LET node == nodes[1]
        gapIndex == getCommentGapIndex(node, 0)
        headerAndRest == splitToHeaderAndRest(node, 0, TRUE)
        header == headerAndRest[1]
        rest == headerAndRest[2]
        In(text, comment) == includes(text, node.comments[comment].text[1])
    IN /\ gapIndex = IF GapPositions(node) = {} THEN 0 ELSE Min(GapPositions(node))
       /\ \A c \in 1..Len(node.comments) :
             IF c <= gapIndex THEN In(header, c) /\ ~In(rest, c)
             ELSE In(rest, c) /\ ~In(header, c)
       /\ \A k \in 1..Len(node.text) : includes(rest, node.text[k]) /\ ~includes(header, node.text[k])
       /\ IF header = <<>> THEN presort[1].kind # "Header"
          ELSE presort[1].kind = "Header" /\ presort[1].text = header

\* The only gap is the one between the last comment and the node.
C21_Witness ==
  /\ pc = "sort"
  /\ Len(nodes[1].comments) = 2
  /\ nodes[1].comments[1].gap = 1
  /\ nodes[1].comments[2].gap = 2
  /\ getCommentGapIndex(nodes[1], 0) = 2
  /\ Len(presort) >= 2
  /\ presort[1].kind = "Header"
  /\ presort[1].text = <<"//c1", NL, "//c2">>
  /\ presort[2].text = <<"import">>

(***************************************************************************)
(* C22  Building the chain: readConfiguration raises no error for an entry *)
(* without a recognized trait key and adds nothing for it; every entry     *)
(* with a recognized trait key (kind, transfer, persistance, declaration,  *)
(* pattern, name) adds one comparator, so the chain holds the comparators  *)
(* of the recognized entries in the order of the configuration, each with  *)
(* the entry's ignoreIfSingleLine, or false when the entry has none.       *)
(***************************************************************************)
RecognizedKeys == {"kind", "transfer", "persistance", "declaration", "pattern", "name"}

ChainBuilt == configuration.defined /\ pc # "readConfiguration"

HasRecognizedKey(entry) == entry.key \in RecognizedKeys

FlagOf(entry) == IF entry.ignoreIfSingleLine = <<>> THEN FALSE ELSE entry.ignoreIfSingleLine[1]

C22_ChainOfRecognizedEntries ==
  /\ (configuration.defined /\ pc = "scripts" /\ scriptIndex = 0) => console = <<>>
  /\ ChainBuilt =>
       LET recognized == SelectSeq(configuration.comparisons, HasRecognizedKey)
       IN /\ Len(comparisons) = Len(recognized)
          /\ \A i \in 1..Len(recognized) :
                /\ comparisons[i].ignoreIfSingleLine = FlagOf(recognized[i])
                /\ comparisons[i].sortOrder.accessor =
                     IF recognized[i].key = "declaration" THEN TraitDeclaration
                     ELSE recognized[i].key

(***************************************************************************)
(* C23  The chain is built once and not changed afterwards: once           *)
(* readConfiguration has returned, comparisons is the chain built from the *)
(* configuration, and no later step of the run changes its length, its     *)
(* order, a rank table or a flag, over any number of calls of handleFile.  *)
(***************************************************************************)
C23_ChainImmutable ==
  [][pc # "readConfiguration" =>
       /\ comparisons = readConfiguration(<<>>, configuration.comparisons)
       /\ comparisons' = comparisons]_vars

\* Three calls of handleFile have returned and the chain of two comparators
\* is the one built from the configuration.
C23_Witness ==
  /\ pc = "done"
  /\ scriptIndex = 3
  /\ Len(comparisons) = 2
  /\ comparisons = readConfiguration(<<>>, configuration.comparisons)
  /\ Len(comparisons[1].sortOrder.map) = 4
  /\ \A name \in {scripts[i] : i \in 1..3} : existsSync(outputDirectory, name)

(***************************************************************************)
(* C24  handleFile of src/main.ts: two neighbours of the output have a     *)
(* blank line between them whenever one of the two spans more than one     *)
(* line, and otherwise exactly when the chain without the comparators      *)
(* marked ignoreWhenSingleLine compares them as nonzero.                   *)
(***************************************************************************)
MainTsSorted == pc \in {"main.ts:emit", "main.ts:scripts", "main.ts:done"}

MainTsRestrictedCompare(element1, element2) ==
  MainTsCompareElements(element1, element2, FALSE)

C24_MainTsBlankLines ==
  MainTsSorted =>
    LET blankLines == BlankLines
    IN \A k \in 2..index :
          blankLines[k] =
            IF SpansLines(elements[k - 1].text) \/ SpansLines(elements[k].text) THEN 1
            ELSE IF MainTsRestrictedCompare(elements[k], elements[k - 1]) # 0 THEN 1
            ELSE 0

(***************************************************************************)
(* C25  RegularExpressionSortOrder of src/main.ts built from the list      *)
(* [null, "const"]: the null entry is the wildcard.  An element whose text *)
(* matches no configured pattern has the rank of the null entry, 0, and so *)
(* compares below an element whose text matches "const", which has rank 1; *)
(* null is no pattern that is matched against the text.                    *)
(***************************************************************************)
RegularExpressionRun ==
  /\ pc \in {"main.ts:sort", "main.ts:emit", "main.ts:scripts", "main.ts:done"}
  /\ configuration.comparisons =
       <<MainTsEntry(comparatorNameRegularExpression, <<null, "const">>, <<>>)>>

C25_NullIsWildcard ==
  RegularExpressionRun =>
    /\ Len(comparisons) = 1
    /\ \A r \in 1..Len(comparisons[1].sortOrder.map) :
          comparisons[1].sortOrder.map[r].key.source # null
    /\ \A i \in 1..Len(presort) :
          MainTsGetRank(comparisons[1].sortOrder, presort[i]) =
            IF includes(presort[i].text, "const") THEN 1 ELSE 0
    /\ \A i, j \in 1..Len(presort) :
          (~includes(presort[i].text, "const") /\ includes(presort[j].text, "const"))
            => MainTsCompareElements(presort[i], presort[j], TRUE) < 0

(***************************************************************************)
(* C26  For every configuration the full chain is a consistent ordering of *)
(* the elements of a file: compareElements returns a number for every      *)
(* pair, compareElements(a, a) is 0, the sign of compareElements(a, b) is  *)
(* the opposite of the sign of compareElements(b, a), and "compares below" *)
(* and "compares as 0" are transitive.                                     *)
(***************************************************************************)
SignOf(n) == IF n < 0 THEN -1 ELSE IF n > 0 THEN 1 ELSE 0

C26_ConsistentOrdering ==
  ElementsKnown =>
    \A i, j, k \in 1..Len(presort) :
       LET a == presort[i]
           b == presort[j]
           c == presort[k]
       IN /\ ~compareElementsThrows(a, b, FALSE)
          /\ FullCompare(a, a) = 0
          /\ SignOf(FullCompare(a, b)) = -SignOf(FullCompare(b, a))
          /\ (FullCompare(a, b) < 0 /\ FullCompare(b, c) < 0) => FullCompare(a, c) < 0
          /\ (FullCompare(a, b) = 0 /\ FullCompare(b, c) = 0) => FullCompare(a, c) = 0

(***************************************************************************)
(* C27  Conversion of the configured names of a trait list.                *)
(***************************************************************************)
ConvertedKey(j) ==
  toEnumerationValues(EnumerationOf(RankEntry.key), RankEntry.values)[j]

NullKey == toEnumerationValues(EnumerationOf(RankEntry.key), <<null>>)[1]

\* The rank an entry is given: the number of distinct keys in front of it.
AssignedAt(j) == Cardinality({ConvertedKey(i) : i \in 1..(j - 1)})

\* The rank of the elements the trait does not apply to.
WildcardRankIs(rank) ==
  /\ MapHas(RankComparator.sortOrder.map, undefined)
  /\ MapGet(RankComparator.sortOrder.map, undefined) = rank
  /\ \A i \in 1..Len(presort) :
        TraitValue(presort[i]) = undefined => RankOf(presort[i]) = rank

\* The entries that are null or a name the enumeration object has no
\* property for: no member name, no member number, no inherited name.
NoPropertyPositions ==
  {j \in 1..Len(RankEntry.values) :
     LET value == RankEntry.values[j]
         enumeration == EnumerationOf(RankEntry.key)
     IN /\ value \notin enumeration
        /\ \A n \in 1..Len(membersOf(enumeration)) : numerals[n] # value
        /\ value \notin inherited}

====
